---- MODULE Spec2Model ----
(***************************************************************************)
(* A model of domcp: the domain-model store, the write tools that mutate   *)
(* the in-memory DomainModel, the structural differ (diff_models) and the  *)
(* refactoring-plan generator (plan_refactoring).                          *)
(*                                                                         *)
(* Rust Strings are sequences of one-character strings, so that            *)
(* eq_ignore_ascii_case, split('.'), contains, replace and to_snake are    *)
(* computed character by character as the code computes them.  Literals of *)
(* format!() templates that only label a description or a note stay TLA+   *)
(* strings, paired with the formatted arguments.                           *)
(***************************************************************************)
EXTENDS Integers, Sequences, FiniteSets, TLC

\* model:          the in-memory DomainModel of the running server
\* store:          the projects table, canonical workspace path -> row
\* workspace_path: the --workspace the server was started with
\* response:       the tool last called and the ToolCallResult it returned
\* updates:        the number of update-tool calls, imports and restarts so far
\* saved:          history: save_model succeeded and no update-tool call, import
\*                 into the store or restart has happened since
\* snake_in:       the &str a caller of to_snake passes
\* snake_out:      the String to_snake returned for it, None before the call
\* last_saved:     history: for each normalized workspace path, the model of
\*                 the latest successful Store::save under it
\* stdin:          the lines a client writes to the standard input of the server
\* cursor:         the number of lines the loop of run has read
\* stdout:         the responses written to the standard output, oldest first
\* pc:             the position of the loop of run: "read" before next_line,
\*                 "handle" with a line read, "send" with a response to write,
\*                 "done" after the end of the input
VARIABLES model, store, workspace_path, response, updates, saved,
          snake_in, snake_out, last_saved, stdin, cursor, stdout, pc

\* the variables of the running server
server_vars == <<model, store, workspace_path, response, updates, saved>>

\* the variables of a caller of to_snake
snake_vars == <<snake_in, snake_out>>

\* the variables of the stdio transport
stdio_vars == <<stdin, cursor, stdout, pc>>

vars == <<model, store, workspace_path, response, updates, saved,
          snake_in, snake_out, last_saved, stdin, cursor, stdout, pc>>

(***************************************************************************)
(* Characters and strings                                                  *)
(***************************************************************************)
AlphaUpper ==
  <<"A","B","C","D","E","F","G","H","I","J","K","L","M",
    "N","O","P","Q","R","S","T","U","V","W","X","Y","Z">>

AlphaLower ==
  <<"a","b","c","d","e","f","g","h","i","j","k","l","m",
    "n","o","p","q","r","s","t","u","v","w","x","y","z">>

\* letters outside ASCII: char::is_uppercase and char::is_lowercase follow
\* Unicode, to_ascii_lowercase and eq_ignore_ascii_case do not
UnicodeUpper == <<"É">>

UnicodeLower == <<"é">>

is_ascii_uppercase(ch) == \E i \in 1..Len(AlphaUpper) : AlphaUpper[i] = ch

is_uppercase(ch) ==
  is_ascii_uppercase(ch) \/ \E i \in 1..Len(UnicodeUpper) : UnicodeUpper[i] = ch

is_lowercase(ch) ==
  \/ \E i \in 1..Len(AlphaLower) : AlphaLower[i] = ch
  \/ \E i \in 1..Len(UnicodeLower) : UnicodeLower[i] = ch

to_ascii_lowercase(ch) ==
  IF is_ascii_uppercase(ch)
    THEN AlphaLower[CHOOSE i \in 1..Len(AlphaUpper) : AlphaUpper[i] = ch]
    ELSE ch

eq_ignore_ascii_case(a, b) ==
  /\ Len(a) = Len(b)
  /\ \A i \in 1..Len(a) : to_ascii_lowercase(a[i]) = to_ascii_lowercase(b[i])

\* an is_empty that holds for no string
is_empty_never(s) == FALSE

is_empty(s) == Len(s) = 0

\* s[i..] starts with the pattern p
MatchesAt(s, p, i) ==
  /\ i + Len(p) - 1 <= Len(s)
  /\ \A k \in 1..Len(p) : s[i + k - 1] = p[k]

\* a starts_with that holds for no string
starts_with_never(s, p) == FALSE

starts_with(s, p) == MatchesAt(s, p, 1)

contains(s, p) == \E i \in 1..(Len(s) + 1) : MatchesAt(s, p, i)

\* str::split(sep) for a one-character separator: always at least one part
RECURSIVE SplitFrom(_, _, _, _)
SplitFrom(s, sep, i, cur) ==
  IF i > Len(s) THEN <<cur>>
  ELSE IF s[i] = sep THEN <<cur>> \o SplitFrom(s, sep, i + 1, <<>>)
  ELSE SplitFrom(s, sep, i + 1, Append(cur, s[i]))

split(s, sep) == SplitFrom(s, sep, 1, <<>>)

\* str::replace(from, to): every non-overlapping match, left to right
RECURSIVE ReplaceFrom(_, _, _, _)
ReplaceFrom(s, from, to, i) ==
  IF i > Len(s) THEN <<>>
  ELSE IF MatchesAt(s, from, i) THEN to \o ReplaceFrom(s, from, to, i + Len(from))
  ELSE <<s[i]>> \o ReplaceFrom(s, from, to, i + 1)

replace(s, from, to) == ReplaceFrom(s, from, to, 1)

\* str::trim_end_matches(ch)
RECURSIVE trim_end_matches(_, _)
trim_end_matches(s, ch) ==
  IF Len(s) > 0 /\ s[Len(s)] = ch
    THEN trim_end_matches(SubSeq(s, 1, Len(s) - 1), ch)
    ELSE s

\* a to_snake that looks at the preceding character only
RECURSIVE ToSnakePrevOnlyFrom(_, _)
ToSnakePrevOnlyFrom(chars, i) ==
  IF i > Len(chars) THEN <<>>
  ELSE
    LET ch == chars[i]
        sep == IF is_uppercase(ch) /\ i > 1 /\ is_lowercase(chars[i - 1])
                 THEN <<"_">> ELSE <<>>
    IN sep \o <<to_ascii_lowercase(ch)>> \o ToSnakePrevOnlyFrom(chars, i + 1)

to_snake_prev_only(s) == ToSnakePrevOnlyFrom(s, 1)

\* Convert PascalCase / camelCase to snake_case.
RECURSIVE ToSnakeFrom(_, _)
ToSnakeFrom(chars, i) ==
  IF i > Len(chars) THEN <<>>
  ELSE
    LET ch == chars[i]
        prev_lower == is_lowercase(chars[i - 1])
        next_lower == IF i + 1 <= Len(chars) THEN is_lowercase(chars[i + 1]) ELSE FALSE
        sep == IF is_uppercase(ch) /\ i > 1 /\ (prev_lower \/ next_lower)
                 THEN <<"_">> ELSE <<>>
    IN sep \o <<to_ascii_lowercase(ch)>> \o ToSnakeFrom(chars, i + 1)

to_snake(s) == ToSnakeFrom(s, 1)

\* A string literal of the source, as a sequence of characters
Lit(s) ==
  CASE s = "." -> <<".">>
    [] s = ".." -> <<".",".">>
    [] s = "Unnamed" -> <<"U","n","n","a","m","e","d">>
    [] s = ".invariants" -> <<".","i","n","v","a","r","i","a","n","t","s">>
    [] s = ".aggregate_root" -> <<".","a","g","g","r","e","g","a","t","e","_","r","o","o","t">>
    [] s = ".fields." -> <<".","f","i","e","l","d","s",".">>
    [] s = ".services." -> <<".","s","e","r","v","i","c","e","s",".">>
    [] s = ".kind" -> <<".","k","i","n","d">>
    [] s = ".methods." -> <<".","m","e","t","h","o","d","s",".">>
    [] s = ".dependencies." -> <<".","d","e","p","e","n","d","e","n","c","i","e","s",".">>
    [] s = ".module_path" -> <<".","m","o","d","u","l","e","_","p","a","t","h">>
    [] s = ".entities." -> <<".","e","n","t","i","t","i","e","s",".">>
    [] s = ".events." -> <<".","e","v","e","n","t","s",".">>
    [] s = ".value_objects." -> <<".","v","a","l","u","e","_","o","b","j","e","c","t","s",".">>
    [] s = ".repositories." -> <<".","r","e","p","o","s","i","t","o","r","i","e","s",".">>
    [] s = "bounded_contexts." -> <<"b","o","u","n","d","e","d","_","c","o","n","t","e","x","t","s",".">>
    [] s = "rules." -> <<"r","u","l","e","s",".">>
    [] s = "src/" -> <<"s","r","c","/">>
    [] s = "/domain/" -> <<"/","d","o","m","a","i","n","/">>
    [] s = ".rs" -> <<".","r","s">>
    [] s = "/" -> <<"/">>
    [] s = "{context}" -> <<"{","c","o","n","t","e","x","t","}">>
    [] s = "{layer}" -> <<"{","l","a","y","e","r","}">>
    [] s = "{type}" -> <<"{","t","y","p","e","}">>
    [] s = "/mod.rs" -> <<"/","m","o","d",".","r","s">>
    [] s = "domain" -> <<"d","o","m","a","i","n">>
    [] s = "application" -> <<"a","p","p","l","i","c","a","t","i","o","n">>
    [] s = "module_path" -> <<"m","o","d","u","l","e","_","p","a","t","h">>
    [] s = "" -> <<>>
    [] s = "?" -> <<"?">>
    [] s = "Test" -> <<"T","e","s","t">>
    [] s = "Identity" -> <<"I","d","e","n","t","i","t","y">>
    [] s = "src/identity" -> <<"s","r","c","/","i","d","e","n","t","i","t","y">>
    [] s = "User" -> <<"U","s","e","r">>
    [] s = "id" -> <<"i","d">>
    [] s = "UserId" -> <<"U","s","e","r","I","d">>
    [] s = "src/{context}/{layer}/{type}.rs" -> <<"s","r","c","/","{","c","o","n","t","e","x","t","}","/","{","l","a","y","e","r","}","/","{","t","y","p","e","}",".","r","s">>
    [] s = "Shop" -> <<"S","h","o","p">>
    [] s = "d" -> <<"d">>
    [] s = "identity" -> <<"i","d","e","n","t","i","t","y">>
    [] s = "src/auth" -> <<"s","r","c","/","a","u","t","h">>
    [] s = "Uuid" -> <<"U","u","i","d">>
    [] s = "avatar" -> <<"a","v","a","t","a","r">>
    [] s = "String" -> <<"S","t","r","i","n","g">>
    [] s = "rename" -> <<"r","e","n","a","m","e">>
    [] s = "Email must be unique" -> <<"E","m","a","i","l"," ","m","u","s","t"," ","b","e"," ","u","n","i","q","u","e">>
    [] s = "Role" -> <<"R","o","l","e">>
    [] s = "Money" -> <<"M","o","n","e","y">>
    [] s = "invariants" -> <<"i","n","v","a","r","i","a","n","t","s">>
    [] s = "AuthService" -> <<"A","u","t","h","S","e","r","v","i","c","e">>
    [] s = "login" -> <<"l","o","g","i","n">>
    [] s = "Token" -> <<"T","o","k","e","n">>
    [] s = "UserRepo" -> <<"U","s","e","r","R","e","p","o">>
    [] s = "UserRegistered" -> <<"U","s","e","r","R","e","g","i","s","t","e","r","e","d">>
    [] s = "Billing" -> <<"B","i","l","l","i","n","g">>
    [] s = "R1" -> <<"R","1">>
    [] s = "no cycles" -> <<"n","o"," ","c","y","c","l","e","s">>
    [] s = "r1" -> <<"r","1">>
    [] s = "layering" -> <<"l","a","y","e","r","i","n","g">>
    [] s = "R2" -> <<"R","2">>
    [] s = "naming" -> <<"n","a","m","i","n","g">>
    [] s = "infrastructure" -> <<"i","n","f","r","a","s","t","r","u","c","t","u","r","e">>
    [] s = "ID" -> <<"I","D">>
    [] s = "/ws" -> <<"/","w","s">>
    [] s = "/ws/" -> <<"/","w","s","/">>
    [] s = "/other" -> <<"/","o","t","h","e","r">>
    [] s = "src/billing" -> <<"s","r","c","/","b","i","l","l","i","n","g">>
    [] s = "Nonexistent" -> <<"N","o","n","e","x","i","s","t","e","n","t">>
    [] s = "Foo" -> <<"F","o","o">>
    [] s = "user" -> <<"u","s","e","r">>
    [] s = "void" -> <<"v","o","i","d">>
    [] s = "Name is not empty" -> <<"N","a","m","e"," ","i","s"," ","n","o","t"," ","e","m","p","t","y">>
    [] s = "email" -> <<"e","m","a","i","l">>
    [] s = "Session" -> <<"S","e","s","s","i","o","n">>
    [] s = "authservice" -> <<"a","u","t","h","s","e","r","v","i","c","e">>
    [] s = "logout" -> <<"l","o","g","o","u","t">>
    [] s = "user_id" -> <<"u","s","e","r","_","i","d">>
    [] s = "NotHere" -> <<"N","o","t","H","e","r","e">>
    [] s = "UserService" -> <<"U","s","e","r","S","e","r","v","i","c","e">>
    [] s = "UserID" -> <<"U","s","e","r","I","D">>
    [] s = "HTMLParser" -> <<"H","T","M","L","P","a","r","s","e","r">>
    [] s = "getHTTPResponse" -> <<"g","e","t","H","T","T","P","R","e","s","p","o","n","s","e">>
    [] s = "already_snake" -> <<"a","l","r","e","a","d","y","_","s","n","a","k","e">>
    [] s = "domcp://architecture/overview" -> <<"d","o","m","c","p",":","/","/","a","r","c","h","i","t","e","c","t","u","r","e","/","o","v","e","r","v","i","e","w">>
    [] s = "domcp://architecture/rules" -> <<"d","o","m","c","p",":","/","/","a","r","c","h","i","t","e","c","t","u","r","e","/","r","u","l","e","s">>
    [] s = "domcp://architecture/conventions" -> <<"d","o","m","c","p",":","/","/","a","r","c","h","i","t","e","c","t","u","r","e","/","c","o","n","v","e","n","t","i","o","n","s">>
    [] s = "domcp://context/" -> <<"d","o","m","c","p",":","/","/","c","o","n","t","e","x","t","/">>
    [] s = "  " -> <<" "," ">>
    [] s = "not json" -> <<"n","o","t"," ","j","s","o","n">>
    [] s = "domcp://context/identity" -> <<"d","o","m","c","p",":","/","/","c","o","n","t","e","x","t","/","i","d","e","n","t","i","t","y">>
    [] s = "user_service" -> <<"u","s","e","r","_","s","e","r","v","i","c","e">>
    [] s = "html_parser" -> <<"h","t","m","l","_","p","a","r","s","e","r">>
    [] s = "get_http_response" -> <<"g","e","t","_","h","t","t","p","_","r","e","s","p","o","n","s","e">>
    [] s = "/never" -> <<"/","n","e","v","e","r">>
    [] s = "src/identity/domain/role.rs" -> <<"s","r","c","/","i","d","e","n","t","i","t","y","/","d","o","m","a","i","n","/","r","o","l","e",".","r","s">>

\* Option<T>: None is the empty sequence, Some(x) the one-element sequence
None == <<>>

Some(x) == <<x>>

is_some(o) == Len(o) = 1

\* iter().find(pred): the first element of seq satisfying Test, as an Option
RECURSIVE FindFrom(_, _, _)
FindFrom(seq, Test(_), i) ==
  IF i > Len(seq) THEN None
  ELSE IF Test(seq[i]) THEN Some(seq[i])
  ELSE FindFrom(seq, Test, i + 1)

find(seq, Test(_)) == FindFrom(seq, Test, 1)

any(seq, Test(_)) == \E i \in 1..Len(seq) : Test(seq[i])

\* Iterator::map and ::filter over a Vec
RECURSIVE MapFrom(_, _, _)
MapFrom(seq, F(_), i) ==
  IF i > Len(seq) THEN <<>> ELSE <<F(seq[i])>> \o MapFrom(seq, F, i + 1)

map(seq, F(_)) == MapFrom(seq, F, 1)

RECURSIVE FilterFrom(_, _, _)
FilterFrom(seq, Test(_), i) ==
  IF i > Len(seq) THEN <<>>
  ELSE (IF Test(seq[i]) THEN <<seq[i]>> ELSE <<>>) \o FilterFrom(seq, Test, i + 1)

filter(seq, Test(_)) == FilterFrom(seq, Test, 1)

\* the concatenation of a sequence of sequences
RECURSIVE FlattenFrom(_, _)
FlattenFrom(seqs, i) ==
  IF i > Len(seqs) THEN <<>> ELSE seqs[i] \o FlattenFrom(seqs, i + 1)

concat(seqs) == FlattenFrom(seqs, 1)

(***************************************************************************)
(* The domain model (domain/model.rs).  tech_stack, the naming hints and   *)
(* the free-text error_handling/testing conventions are carried by no      *)
(* operation modelled here and are left out of the records.                *)
(***************************************************************************)
Field(name, field_type, required, description) ==
  [name |-> name, field_type |-> field_type, required |-> required,
   description |-> description]

Method(name, description, parameters, return_type) ==
  [name |-> name, description |-> description, parameters |-> parameters,
   return_type |-> return_type]

Entity(name, description, aggregate_root, fields, methods, invariants) ==
  [name |-> name, description |-> description, aggregate_root |-> aggregate_root,
   fields |-> fields, methods |-> methods, invariants |-> invariants]

ValueObject(name, description, fields, validation_rules) ==
  [name |-> name, description |-> description, fields |-> fields,
   validation_rules |-> validation_rules]

ServiceKind == {"Domain", "Application", "Infrastructure"}

Service(name, description, kind, methods, dependencies) ==
  [name |-> name, description |-> description, kind |-> kind,
   methods |-> methods, dependencies |-> dependencies]

Repository(name, aggregate, methods) ==
  [name |-> name, aggregate |-> aggregate, methods |-> methods]

DomainEvent(name, description, fields, source) ==
  [name |-> name, description |-> description, fields |-> fields, source |-> source]

BoundedContext(name, description, module_path, entities, value_objects, services, repositories, events, dependencies) ==
  [name |-> name, description |-> description, module_path |-> module_path,
   entities |-> entities, value_objects |-> value_objects, services |-> services,
   repositories |-> repositories, events |-> events, dependencies |-> dependencies]

Severity == {"Error", "Warning", "Info"}

ArchitecturalRule(id, description, severity, scope) ==
  [id |-> id, description |-> description, severity |-> severity, scope |-> scope]

FileStructure(pattern, layers) == [pattern |-> pattern, layers |-> layers]

Conventions(file_structure) == [file_structure |-> file_structure]

ConventionsDefault == Conventions(FileStructure(<<>>, <<>>))

DomainModel(name, description, bounded_contexts, rules, conventions) ==
  [name |-> name, description |-> description, bounded_contexts |-> bounded_contexts,
   rules |-> rules, conventions |-> conventions]

\* Path::file_name: the last component, None for "/" and for a path ending in ".."
file_name(path) ==
  LET comps == filter(split(path, "/"), LAMBDA c : c # <<>> /\ c # Lit("."))
  IN IF comps = <<>> \/ comps[Len(comps)] = Lit("..")
       THEN None
       ELSE Some(comps[Len(comps)])

\* DomainModel::empty
empty(ws) ==
  LET n == file_name(ws)
  IN DomainModel(IF is_some(n) THEN n[1] ELSE Lit("Unnamed"),
                 <<>>, <<>>, <<>>, ConventionsDefault)

\* DomainModel::validate: TRUE for Ok(()), FALSE for the bail! cases
validate(m) ==
  /\ ~is_empty(m.name)
  /\ \A i \in 1..Len(m.bounded_contexts) :
       LET bc == m.bounded_contexts[i]
       IN /\ ~is_empty(bc.name)
          /\ \A j \in 1..Len(bc.entities) : ~is_empty(bc.entities[j].name)

(***************************************************************************)
(* serde: the JSON form of the model.  A JSON object is a record over the  *)
(* keys present, an array a sequence, a string a sequence of characters;   *)
(* the enums are written by their snake_case names.  Serializing writes    *)
(* every key; deserializing fills #[serde(default)] keys that are absent.  *)
(***************************************************************************)
get_or(j, key, default) == IF key \in DOMAIN j THEN j[key] ELSE default

kind_to_json(k) ==
  CASE k = "Domain" -> "domain"
    [] k = "Application" -> "application"
    [] k = "Infrastructure" -> "infrastructure"

kind_from_json(s) ==
  CASE s = "domain" -> "Domain"
    [] s = "application" -> "Application"
    [] s = "infrastructure" -> "Infrastructure"

severity_to_json(s) ==
  CASE s = "Error" -> "error"
    [] s = "Warning" -> "warning"
    [] s = "Info" -> "info"

severity_from_json(s) ==
  CASE s = "error" -> "Error"
    [] s = "warning" -> "Warning"
    [] s = "info" -> "Info"

field_to_json(f) ==
  [name |-> f.name, type |-> f.field_type, required |-> f.required,
   description |-> f.description]

field_from_json(j) ==
  Field(j.name, j.type, get_or(j, "required", FALSE), get_or(j, "description", <<>>))

method_to_json(m) ==
  [name |-> m.name, description |-> m.description,
   parameters |-> map(m.parameters, field_to_json), return_type |-> m.return_type]

method_from_json(j) ==
  Method(j.name, get_or(j, "description", <<>>),
         map(get_or(j, "parameters", <<>>), field_from_json),
         get_or(j, "return_type", <<>>))

entity_to_json(e) ==
  [name |-> e.name, description |-> e.description, aggregate_root |-> e.aggregate_root,
   fields |-> map(e.fields, field_to_json), methods |-> map(e.methods, method_to_json),
   invariants |-> e.invariants]

entity_from_json(j) ==
  Entity(j.name, get_or(j, "description", <<>>), get_or(j, "aggregate_root", FALSE),
         map(get_or(j, "fields", <<>>), field_from_json),
         map(get_or(j, "methods", <<>>), method_from_json),
         get_or(j, "invariants", <<>>))

value_object_to_json(v) ==
  [name |-> v.name, description |-> v.description,
   fields |-> map(v.fields, field_to_json), validation_rules |-> v.validation_rules]

value_object_from_json(j) ==
  ValueObject(j.name, get_or(j, "description", <<>>),
              map(get_or(j, "fields", <<>>), field_from_json),
              get_or(j, "validation_rules", <<>>))

service_to_json(s) ==
  [name |-> s.name, description |-> s.description, kind |-> kind_to_json(s.kind),
   methods |-> map(s.methods, method_to_json), dependencies |-> s.dependencies]

service_from_json(j) ==
  Service(j.name, get_or(j, "description", <<>>),
          kind_from_json(get_or(j, "kind", "domain")),
          map(get_or(j, "methods", <<>>), method_from_json),
          get_or(j, "dependencies", <<>>))

repository_to_json(r) ==
  [name |-> r.name, aggregate |-> r.aggregate, methods |-> map(r.methods, method_to_json)]

repository_from_json(j) ==
  Repository(j.name, j.aggregate, map(get_or(j, "methods", <<>>), method_from_json))

event_to_json(e) ==
  [name |-> e.name, description |-> e.description,
   fields |-> map(e.fields, field_to_json), source |-> e.source]

event_from_json(j) ==
  DomainEvent(j.name, get_or(j, "description", <<>>),
              map(get_or(j, "fields", <<>>), field_from_json),
              get_or(j, "source", <<>>))

context_to_json(bc) ==
  [name |-> bc.name, description |-> bc.description, module_path |-> bc.module_path,
   entities |-> map(bc.entities, entity_to_json),
   value_objects |-> map(bc.value_objects, value_object_to_json),
   services |-> map(bc.services, service_to_json),
   repositories |-> map(bc.repositories, repository_to_json),
   events |-> map(bc.events, event_to_json),
   dependencies |-> bc.dependencies]

context_from_json(j) ==
  BoundedContext(j.name, get_or(j, "description", <<>>), get_or(j, "module_path", <<>>),
                 map(get_or(j, "entities", <<>>), entity_from_json),
                 map(get_or(j, "value_objects", <<>>), value_object_from_json),
                 map(get_or(j, "services", <<>>), service_from_json),
                 map(get_or(j, "repositories", <<>>), repository_from_json),
                 map(get_or(j, "events", <<>>), event_from_json),
                 get_or(j, "dependencies", <<>>))

rule_to_json(r) ==
  [id |-> r.id, description |-> r.description,
   severity |-> severity_to_json(r.severity), scope |-> r.scope]

rule_from_json(j) ==
  ArchitecturalRule(j.id, j.description,
                    severity_from_json(get_or(j, "severity", "error")),
                    get_or(j, "scope", <<>>))

conventions_to_json(c) ==
  [file_structure |-> [pattern |-> c.file_structure.pattern,
                       layers |-> c.file_structure.layers]]

conventions_from_json(j) ==
  LET fs == get_or(j, "file_structure", [pattern |-> <<>>, layers |-> <<>>])
  IN Conventions(FileStructure(get_or(fs, "pattern", <<>>), get_or(fs, "layers", <<>>)))

\* serde_json::to_string_pretty(model)
to_json(m) ==
  [name |-> m.name, description |-> m.description,
   bounded_contexts |-> map(m.bounded_contexts, context_to_json),
   rules |-> map(m.rules, rule_to_json),
   conventions |-> conventions_to_json(m.conventions)]

\* serde_json::from_str::<DomainModel>(json)
from_json(j) ==
  DomainModel(j.name, get_or(j, "description", <<>>),
              map(get_or(j, "bounded_contexts", <<>>), context_from_json),
              map(get_or(j, "rules", <<>>), rule_from_json),
              conventions_from_json(get_or(j, "conventions", [file_structure |-> [pattern |-> <<>>, layers |-> <<>>]])))

\* serde_json::Value as carried by ModelChange.before / .after
JsonString(s) == [json |-> "string", v |-> s]

JsonBool(b) == [json |-> "bool", v |-> b]

JsonObject(o) == [json |-> "object", v |-> o]

\* Value::as_str
as_str(value) == IF value.json = "string" THEN Some(value.v) ELSE None

unwrap_or(o, default) == IF is_some(o) THEN o[1] ELSE default

(***************************************************************************)
(* The structural differ (domain/diff.rs)                                  *)
(***************************************************************************)
\* format!(template, args...) of a description or a note: the template with
\* the values formatted into it
Format(template, args) == [fmt |-> template, args |-> args]

\* a differ that reports a removal as a modification
ModelChange_no_removed(kind, path, description, before, after) ==
  [kind |-> IF kind = "Removed" THEN "Modified" ELSE kind, path |-> path,
   description |-> description, before |-> before, after |-> after]

ModelChange(kind, path, description, before, after) ==
  [kind |-> kind, path |-> path, description |-> description,
   before |-> before, after |-> after]

same_name(a, b) == eq_ignore_ascii_case(a.name, b.name)

\* a differ of entities that reports the invariants added and those removed
diff_entity_invariants_both(ctx, old, new) ==
  map(filter(new.invariants, LAMBDA inv : ~any(old.invariants, LAMBDA i : i = inv)),
      LAMBDA inv :
        ModelChange("Added", ctx \o Lit(".") \o new.name \o Lit(".invariants"),
                    Format("New invariant on '{}': {}", <<new.name, inv>>),
                    None, Some(JsonString(inv))))
  \o map(filter(old.invariants, LAMBDA inv : ~any(new.invariants, LAMBDA i : i = inv)),
         LAMBDA inv :
           ModelChange("Removed", ctx \o Lit(".") \o new.name \o Lit(".invariants"),
                       Format("Removed invariant on '{}': {}", <<new.name, inv>>),
                       Some(JsonString(inv)), None))

diff_entity(ctx, old, new) ==
  LET name == new.name
      prefix == ctx \o Lit(".") \o name
  IN
  \* Aggregate root change
  (IF old.aggregate_root # new.aggregate_root
     THEN <<ModelChange("Modified", prefix \o Lit(".aggregate_root"),
                        Format("'{}' aggregate root: {} -> {}",
                               <<name, old.aggregate_root, new.aggregate_root>>),
                        Some(JsonBool(old.aggregate_root)),
                        Some(JsonBool(new.aggregate_root)))>>
     ELSE <<>>)
  \* Fields added/removed
  \o map(filter(new.fields, LAMBDA new_f : ~any(old.fields, LAMBDA f : same_name(f, new_f))),
         LAMBDA new_f :
           ModelChange("Added", prefix \o Lit(".fields.") \o new_f.name,
                       Format("New field '{}: {}' on entity '{}'",
                              <<new_f.name, new_f.field_type, name>>),
                       None, Some(JsonObject(field_to_json(new_f)))))
  \o map(filter(old.fields, LAMBDA old_f : ~any(new.fields, LAMBDA f : same_name(f, old_f))),
         LAMBDA old_f :
           ModelChange("Removed", prefix \o Lit(".fields.") \o old_f.name,
                       Format("Removed field '{}' from entity '{}'", <<old_f.name, name>>),
                       Some(JsonObject(field_to_json(old_f))), None))
  \* Field type changes
  \o concat(map(new.fields, LAMBDA new_f :
       LET found == find(old.fields, LAMBDA f : same_name(f, new_f))
       IN IF is_some(found) /\ found[1].field_type # new_f.field_type
            THEN <<ModelChange("Modified", prefix \o Lit(".fields.") \o new_f.name,
                               Format("Field '{}' on '{}' type changed: {} -> {}",
                                      <<new_f.name, name, found[1].field_type, new_f.field_type>>),
                               Some(JsonString(found[1].field_type)),
                               Some(JsonString(new_f.field_type)))>>
            ELSE <<>>))
  \* Invariant changes
  \o map(filter(new.invariants, LAMBDA inv : ~any(old.invariants, LAMBDA i : i = inv)),
         LAMBDA inv :
           ModelChange("Added", prefix \o Lit(".invariants"),
                       Format("New invariant on '{}': {}", <<name, inv>>),
                       None, Some(JsonString(inv))))

diff_service(ctx, old, new) ==
  LET name == new.name
      prefix == ctx \o Lit(".services.") \o name
      \* format!("{:?}", kind)
      old_kind == old.kind
      new_kind == new.kind
  IN
  \* Kind change
  (IF old_kind # new_kind
     THEN <<ModelChange("Modified", prefix \o Lit(".kind"),
                        Format("Service '{}' kind changed: {} -> {}", <<name, old_kind, new_kind>>),
                        Some(JsonString(old_kind)), Some(JsonString(new_kind)))>>
     ELSE <<>>)
  \* Methods added/removed
  \o map(filter(new.methods, LAMBDA new_m : ~any(old.methods, LAMBDA m : same_name(m, new_m))),
         LAMBDA new_m :
           ModelChange("Added", prefix \o Lit(".methods.") \o new_m.name,
                       Format("New method '{}' on service '{}'", <<new_m.name, name>>),
                       None, Some(JsonObject(method_to_json(new_m)))))
  \o map(filter(old.methods, LAMBDA old_m : ~any(new.methods, LAMBDA m : same_name(m, old_m))),
         LAMBDA old_m :
           ModelChange("Removed", prefix \o Lit(".methods.") \o old_m.name,
                       Format("Removed method '{}' from service '{}'", <<old_m.name, name>>),
                       Some(JsonObject(method_to_json(old_m))), None))
  \* Dependency changes
  \o map(filter(new.dependencies,
                LAMBDA dep : ~any(old.dependencies, LAMBDA d : eq_ignore_ascii_case(d, dep))),
         LAMBDA dep :
           ModelChange("Added", prefix \o Lit(".dependencies.") \o dep,
                       Format("New dependency on service '{}': {}", <<name, dep>>),
                       None, Some(JsonString(dep))))
  \o map(filter(old.dependencies,
                LAMBDA dep : ~any(new.dependencies, LAMBDA d : eq_ignore_ascii_case(d, dep))),
         LAMBDA dep :
           ModelChange("Removed", prefix \o Lit(".dependencies.") \o dep,
                       Format("Removed dependency on service '{}': {}", <<name, dep>>),
                       Some(JsonString(dep)), None))

\* One "for new_x in &new.xs { if !old.xs.any(..) {Added} }" loop followed by
\* its "for old_x in &old.xs { if !new.xs.any(..) {Removed} }" loop, for the
\* collections that are not recursed into (events, value objects, repositories)
diff_named(ctx, key, added_fmt, removed_fmt, old_items, new_items, ToJson(_)) ==
  map(filter(new_items, LAMBDA n : ~any(old_items, LAMBDA o : same_name(o, n))),
      LAMBDA n :
        ModelChange("Added", ctx \o key \o n.name, Format(added_fmt, <<n.name, ctx>>),
                    None, Some(JsonObject(ToJson(n)))))
  \o map(filter(old_items, LAMBDA o : ~any(new_items, LAMBDA n : same_name(n, o))),
         LAMBDA o :
           ModelChange("Removed", ctx \o key \o o.name, Format(removed_fmt, <<o.name, ctx>>),
                       Some(JsonObject(ToJson(o))), None))

diff_context(old, new) ==
  LET ctx == new.name
  IN
  \* Module path change (= move)
  (IF old.module_path # new.module_path /\ ~is_empty(new.module_path)
     THEN <<ModelChange("Moved", ctx \o Lit(".module_path"),
                        Format("Context '{}' moved: {} -> {}",
                               <<ctx, old.module_path, new.module_path>>),
                        Some(JsonString(old.module_path)),
                        Some(JsonString(new.module_path)))>>
     ELSE <<>>)
  \* Entities
  \o concat(map(new.entities, LAMBDA new_e :
       LET found == find(old.entities, LAMBDA e : same_name(e, new_e))
       IN IF found = None
            THEN <<ModelChange("Added", ctx \o Lit(".entities.") \o new_e.name,
                               Format("New entity '{}' in context '{}'", <<new_e.name, ctx>>),
                               None, Some(JsonObject(entity_to_json(new_e))))>>
            ELSE diff_entity(ctx, found[1], new_e)))
  \o map(filter(old.entities, LAMBDA old_e : ~any(new.entities, LAMBDA e : same_name(e, old_e))),
         LAMBDA old_e :
           ModelChange("Removed", ctx \o Lit(".entities.") \o old_e.name,
                       Format("Removed entity '{}' from context '{}'", <<old_e.name, ctx>>),
                       Some(JsonObject(entity_to_json(old_e))), None))
  \* Services
  \o concat(map(new.services, LAMBDA new_s :
       LET found == find(old.services, LAMBDA s : same_name(s, new_s))
       IN IF found = None
            THEN <<ModelChange("Added", ctx \o Lit(".services.") \o new_s.name,
                               Format("New service '{}' in context '{}'", <<new_s.name, ctx>>),
                               None, Some(JsonObject(service_to_json(new_s))))>>
            ELSE diff_service(ctx, found[1], new_s)))
  \o map(filter(old.services, LAMBDA old_s : ~any(new.services, LAMBDA s : same_name(s, old_s))),
         LAMBDA old_s :
           ModelChange("Removed", ctx \o Lit(".services.") \o old_s.name,
                       Format("Removed service '{}' from context '{}'", <<old_s.name, ctx>>),
                       Some(JsonObject(service_to_json(old_s))), None))
  \* Events
  \o diff_named(ctx, Lit(".events."), "New event '{}' in context '{}'",
                "Removed event '{}' from context '{}'", old.events, new.events, event_to_json)
  \* Value objects
  \o diff_named(ctx, Lit(".value_objects."), "New value object '{}' in context '{}'",
                "Removed value object '{}' from context '{}'",
                old.value_objects, new.value_objects, value_object_to_json)
  \* Repositories
  \o diff_named(ctx, Lit(".repositories."), "New repository '{}' in context '{}'",
                "Removed repository '{}' from context '{}'",
                old.repositories, new.repositories, repository_to_json)
  \* Dependency changes
  \o map(filter(new.dependencies,
                LAMBDA dep : ~any(old.dependencies, LAMBDA d : eq_ignore_ascii_case(d, dep))),
         LAMBDA dep :
           ModelChange("Added", ctx \o Lit(".dependencies.") \o dep,
                       Format("New dependency: {} -> {}", <<ctx, dep>>),
                       None, Some(JsonString(dep))))
  \o map(filter(old.dependencies,
                LAMBDA dep : ~any(new.dependencies, LAMBDA d : eq_ignore_ascii_case(d, dep))),
         LAMBDA dep :
           ModelChange("Removed", ctx \o Lit(".dependencies.") \o dep,
                       Format("Removed dependency: {} -> {}", <<ctx, dep>>),
                       Some(JsonString(dep)), None))

\* Diff two domain models and produce a structured change set.
diff_models(old, new) ==
  \* Diff bounded contexts
  concat(map(new.bounded_contexts, LAMBDA new_bc :
    LET found == find(old.bounded_contexts, LAMBDA bc : same_name(bc, new_bc))
    IN IF found = None
         THEN <<ModelChange("Added", Lit("bounded_contexts.") \o new_bc.name,
                            Format("New bounded context: {}", <<new_bc.name>>),
                            None,
                            Some(JsonObject([name |-> new_bc.name,
                                             module |-> new_bc.module_path])))>>
         ELSE diff_context(found[1], new_bc)))
  \* Detect removed contexts
  \o map(filter(old.bounded_contexts,
                LAMBDA old_bc : ~any(new.bounded_contexts, LAMBDA bc : same_name(bc, old_bc))),
         LAMBDA old_bc :
           ModelChange("Removed", Lit("bounded_contexts.") \o old_bc.name,
                       Format("Removed bounded context: {}", <<old_bc.name>>),
                       Some(JsonObject([name |-> old_bc.name])), None))
  \* Diff rules
  \o map(filter(new.rules, LAMBDA new_rule : ~any(old.rules, LAMBDA r : r.id = new_rule.id)),
         LAMBDA new_rule :
           ModelChange("Added", Lit("rules.") \o new_rule.id,
                       Format("New rule: {} - {}", <<new_rule.id, new_rule.description>>),
                       None, Some(JsonObject(rule_to_json(new_rule)))))
  \o map(filter(old.rules, LAMBDA old_rule : ~any(new.rules, LAMBDA r : r.id = old_rule.id)),
         LAMBDA old_rule :
           ModelChange("Removed", Lit("rules.") \o old_rule.id,
                       Format("Removed rule: {}", <<old_rule.id>>),
                       Some(JsonObject(rule_to_json(old_rule))), None))
  \* Modified rules
  \o concat(map(new.rules, LAMBDA new_rule :
       LET found == find(old.rules, LAMBDA r : r.id = new_rule.id)
       IN IF is_some(found)
             /\ (found[1].description # new_rule.description
                 \/ found[1].severity # new_rule.severity)
            THEN <<ModelChange("Modified", Lit("rules.") \o new_rule.id,
                               Format("Modified rule: {}", <<new_rule.id>>),
                               Some(JsonObject(rule_to_json(found[1]))),
                               Some(JsonObject(rule_to_json(new_rule))))>>
            ELSE <<>>))

(***************************************************************************)
(* The refactoring plan generator (domain/diff.rs)                         *)
(***************************************************************************)
\* a planner that gives every action the priority High
CodeAction_always_high(action, file_path, description, priority) ==
  [action |-> action, file_path |-> file_path, description |-> description,
   priority |-> "High"]

CodeAction(action, file_path, description, priority) ==
  [action |-> action, file_path |-> file_path, description |-> description,
   priority |-> priority]

\* a resolver that puts every file into the domain layer
resolve_path_domain_layer(pattern, context, layer, name) ==
  Lit("src/") \o to_snake(context) \o Lit("/domain/") \o to_snake(name) \o Lit(".rs")

resolve_path(pattern, context, layer, name) ==
  IF is_empty(pattern)
    THEN Lit("src/") \o to_snake(context) \o Lit("/") \o layer \o Lit("/")
         \o to_snake(name) \o Lit(".rs")
    ELSE replace(replace(replace(pattern, Lit("{context}"), to_snake(context)),
                         Lit("{layer}"), layer),
                 Lit("{type}"), to_snake(name))

\* The body of "for change in changes": the code actions and the migration
\* notes one change pushes
plan_change(change, conventions) ==
  LET pattern == conventions.file_structure.pattern
      parts == split(change.path, ".")
      n == Len(parts)
      nothing == [actions |-> <<>>, notes |-> <<>>]
  IN
  CASE change.kind = "Added" ->
         \* New bounded context
         IF n = 2 /\ starts_with(change.path, Lit("bounded_contexts."))
           THEN LET ctx_name == parts[2]
                    ctx_snake == to_snake(ctx_name)
                IN [actions |-> map(conventions.file_structure.layers, LAMBDA layer :
                      CodeAction("CreateFile",
                                 Lit("src/") \o ctx_snake \o Lit("/") \o layer \o Lit("/mod.rs"),
                                 Format("Create {} layer module for context '{}'",
                                        <<layer, ctx_name>>),
                                 "High")),
                    notes |-> <<>>]
         \* New entity
         ELSE IF n = 3 /\ contains(change.path, Lit(".entities."))
           THEN LET ctx == parts[1]
                    entity_name == parts[3]
                IN [actions |->
                      <<CodeAction("CreateFile",
                                   resolve_path(pattern, ctx, Lit("domain"), entity_name),
                                   Format("Create entity '{}'", <<entity_name>>), "High"),
                        CodeAction("AddTest",
                                   resolve_path(pattern, ctx, Lit("domain"), entity_name),
                                   Format("Add unit tests for entity '{}'", <<entity_name>>),
                                   "Medium")>>,
                    notes |-> <<Format("New entity '{}' - may need database migration",
                                       <<entity_name>>)>>]
         \* New field on entity
         ELSE IF n = 4 /\ contains(change.path, Lit(".fields."))
           THEN LET ctx == parts[1]
                    entity == parts[2]
                    field_name == parts[4]
                IN [actions |->
                      <<CodeAction("ModifyFile",
                                   resolve_path(pattern, ctx, Lit("domain"), entity),
                                   Format("Add field '{}' to entity '{}'", <<field_name, entity>>),
                                   "High")>>,
                    notes |-> <<Format("New field '{}' on '{}' - needs ALTER TABLE migration",
                                       <<field_name, entity>>)>>]
         \* New service
         ELSE IF n = 3 /\ contains(change.path, Lit(".services."))
           THEN LET ctx == parts[1]
                    svc_name == parts[3]
                IN [actions |->
                      <<CodeAction("CreateFile",
                                   resolve_path(pattern, ctx, Lit("application"), svc_name),
                                   Format("Create service '{}'", <<svc_name>>), "High")>>,
                    notes |-> <<>>]
         \* New event
         ELSE IF n = 3 /\ contains(change.path, Lit(".events."))
           THEN LET ctx == parts[1]
                    event_name == parts[3]
                IN [actions |->
                      <<CodeAction("CreateFile",
                                   resolve_path(pattern, ctx, Lit("domain"), event_name),
                                   Format("Create domain event '{}'", <<event_name>>),
                                   "Medium")>>,
                    notes |-> <<>>]
         \* New invariant
         ELSE IF n = 3 /\ contains(change.path, Lit(".invariants"))
           THEN LET ctx == parts[1]
                    entity == parts[2]
                IN [actions |->
                      <<CodeAction("AddTest",
                                   resolve_path(pattern, ctx, Lit("domain"), entity),
                                   Format("Add test for new invariant on '{}'", <<entity>>),
                                   "Medium")>>,
                    notes |-> <<>>]
         \* New dependency
         ELSE IF n = 3 /\ contains(change.path, Lit(".dependencies."))
           THEN LET ctx == parts[1]
                    target == parts[3]
                IN [actions |->
                      <<CodeAction("UpdateImports",
                                   Lit("src/") \o to_snake(ctx) \o Lit("/mod.rs"),
                                   Format("Wire dependency '{}' -> '{}'", <<ctx, target>>),
                                   "Medium")>>,
                    notes |-> <<>>]
         ELSE nothing
    [] change.kind = "Removed" ->
         IF n = 3 /\ contains(change.path, Lit(".entities."))
           THEN LET ctx == parts[1]
                    entity_name == parts[3]
                IN [actions |->
                      <<CodeAction("DeleteFile",
                                   resolve_path(pattern, ctx, Lit("domain"), entity_name),
                                   Format("Remove entity '{}' and all references",
                                          <<entity_name>>),
                                   "Critical")>>,
                    notes |-> <<Format("Removed entity '{}' - needs DROP TABLE migration",
                                       <<entity_name>>)>>]
         ELSE IF n = 4 /\ contains(change.path, Lit(".fields."))
           THEN LET ctx == parts[1]
                    entity == parts[2]
                    field_name == parts[4]
                IN [actions |->
                      <<CodeAction("ModifyFile",
                                   resolve_path(pattern, ctx, Lit("domain"), entity),
                                   Format("Remove field '{}' from entity '{}'",
                                          <<field_name, entity>>),
                                   "High")>>,
                    notes |-> <<Format("Removed field '{}' from '{}' - needs ALTER TABLE migration",
                                       <<field_name, entity>>)>>]
         ELSE nothing
    [] change.kind = "Modified" ->
         IF n = 4 /\ contains(change.path, Lit(".fields."))
           THEN LET ctx == parts[1]
                    entity == parts[2]
                    field_name == parts[4]
                IN [actions |->
                      <<CodeAction("ModifyFile",
                                   resolve_path(pattern, ctx, Lit("domain"), entity),
                                   Format("Update field type for '{}' on '{}'",
                                          <<field_name, entity>>),
                                   "Critical")>>,
                    notes |-> <<Format("Field type change on '{}.{}' - needs data migration",
                                       <<entity, field_name>>)>>]
         ELSE nothing
    [] change.kind = "Moved" ->
         IF contains(change.path, Lit("module_path"))
            /\ is_some(change.before) /\ is_some(change.after)
           THEN LET from == change.before[1]
                    to == change.after[1]
                IN [actions |->
                      <<CodeAction("MoveFile", unwrap_or(as_str(from), Lit("")),
                                   Format("Move module from {} to {}",
                                          <<unwrap_or(as_str(from), Lit("?")),
                                            unwrap_or(as_str(to), Lit("?"))>>),
                                   "Critical")>>,
                    notes |-> <<>>]
           ELSE nothing

\* the key of code_actions.sort_by_key
priority_key(priority) ==
  CASE priority = "Critical" -> 0
    [] priority = "High" -> 1
    [] priority = "Medium" -> 2
    [] priority = "Low" -> 3

\* slice::sort_by_key, a stable sort: each element is inserted behind every
\* element already placed whose key is not greater
RECURSIVE InsertByKey(_, _, _)
InsertByKey(sorted, Key(_), x) ==
  IF sorted = <<>> THEN <<x>>
  ELSE IF Key(sorted[Len(sorted)]) <= Key(x) THEN Append(sorted, x)
  ELSE Append(InsertByKey(SubSeq(sorted, 1, Len(sorted) - 1), Key, x), sorted[Len(sorted)])

RECURSIVE SortFrom(_, _, _)
SortFrom(seq, Key(_), n) ==
  IF n = 0 THEN <<>> ELSE InsertByKey(SortFrom(seq, Key, n - 1), Key, seq[n])

sort_by_key(seq, Key(_)) == SortFrom(seq, Key, Len(seq))

\* the code actions in the order the loop over the changes pushes them
generated_actions(changes, conventions) ==
  concat(map(changes, LAMBDA change : plan_change(change, conventions).actions))

\* a planner that leaves the actions in generation order
plan_refactoring_unsorted(changes, conventions) ==
  [model_changes |-> changes,
   code_actions |-> generated_actions(changes, conventions),
   migration_notes |-> concat(map(changes, LAMBDA c : plan_change(c, conventions).notes))]

\* a planner that lists the migration notes last change first
plan_refactoring_notes_reversed(changes, conventions) ==
  LET notes == concat(map(changes, LAMBDA c : plan_change(c, conventions).notes))
  IN [model_changes |-> changes,
      code_actions |-> sort_by_key(generated_actions(changes, conventions),
                                   LAMBDA a : priority_key(a.priority)),
      migration_notes |-> [i \in DOMAIN notes |-> notes[Len(notes) + 1 - i]]]

\* Generate a refactoring plan from model changes.
plan_refactoring(changes, conventions) ==
  [model_changes |-> changes,
   code_actions |-> sort_by_key(generated_actions(changes, conventions),
                                LAMBDA a : priority_key(a.priority)),
   migration_notes |-> concat(map(changes, LAMBDA change :
                                plan_change(change, conventions).notes))]

(***************************************************************************)
(* The store (store/sqlite.rs): the projects table, one row per            *)
(* workspace_path (PRIMARY KEY), as a function from the keys saved so far. *)
(***************************************************************************)
\* Normalize workspace path for consistent keying.  The workspace paths of
\* the model name no existing directory, so fs::canonicalize fails and the
\* stripped path is the key.
canonicalize_path(path) == trim_end_matches(path, "/")

\* Store::load: None when the workspace has no row
store_load(st, ws) ==
  LET canonical == canonicalize_path(ws)
  IN IF canonical \in DOMAIN st
       THEN Some(from_json(st[canonical].model_json))
       ELSE None

\* a save that keeps the row a workspace already has
store_save_insert_only(st, ws, m) ==
  LET canonical == canonicalize_path(ws)
  IN [k \in DOMAIN st \cup {canonical} |->
        IF k \in DOMAIN st
          THEN st[k]
          ELSE [project_name |-> m.name, model_json |-> to_json(m)]]

\* Store::save: INSERT ... ON CONFLICT(workspace_path) DO UPDATE
store_save(st, ws, m) ==
  LET canonical == canonicalize_path(ws)
  IN [k \in DOMAIN st \cup {canonical} |->
        IF k = canonical
          THEN [project_name |-> m.name, model_json |-> to_json(m)]
          ELSE st[k]]

\* Store::list: one ProjectInfo per row.  The rows are ordered by updated_at,
\* which is not modelled: the list is the set of its entries.
store_list(st) ==
  {[workspace_path |-> k, project_name |-> st[k].project_name] : k \in DOMAIN st}

(***************************************************************************)
(* The write tools (mcp/write_tools.rs).  The arguments of a call are a    *)
(* JSON object: a record over the keys given, each of its declared type.   *)
(***************************************************************************)
\* anyhow::Result
Ok(value) == [ok |-> TRUE, value |-> value]

Err(error) == [ok |-> FALSE, error |-> error]

text_result(text) == [is_error |-> FALSE, text |-> text]

error_result(msg) == [is_error |-> TRUE, text |-> msg]

arg_str(args, key) == IF key \in DOMAIN args THEN args[key] ELSE Lit("")

\* the index of the first element satisfying Test, 0 when there is none
RECURSIVE PositionFrom(_, _, _)
PositionFrom(seq, Test(_), i) ==
  IF i > Len(seq) THEN 0
  ELSE IF Test(seq[i]) THEN i
  ELSE PositionFrom(seq, Test, i + 1)

position(seq, Test(_)) == PositionFrom(seq, Test, 1)

\* filter_map over the array: an item lacking "name" or "type" is skipped
parse_fields(val) ==
  map(filter(unwrap_or(val, <<>>), LAMBDA f : "name" \in DOMAIN f /\ "type" \in DOMAIN f),
      LAMBDA f : Field(f.name, f.type, get_or(f, "required", FALSE),
                       get_or(f, "description", Lit(""))))

\* filter_map over the array: an item lacking "name" is skipped
parse_methods(val) ==
  map(filter(unwrap_or(val, <<>>), LAMBDA m : "name" \in DOMAIN m),
      LAMBDA m : Method(m.name, get_or(m, "description", Lit("")),
                        parse_fields(IF "parameters" \in DOMAIN m
                                       THEN Some(m.parameters) ELSE None),
                        get_or(m, "return_type", Lit(""))))

\* args.get(key).and_then(|v| v.as_array())
arg_array(args, key) == IF key \in DOMAIN args THEN Some(args[key]) ELSE None

RECURSIVE MergeFieldsFrom(_, _, _)
MergeFieldsFrom(existing, new_fields, i) ==
  IF i > Len(new_fields) THEN existing
  ELSE
    LET f == new_fields[i]
        at == IF "name" \in DOMAIN f
                THEN position(existing, LAMBDA ef : ef.name = f.name) ELSE 0
        parsed == parse_fields(Some(<<f>>))
        next ==
          IF "name" \notin DOMAIN f THEN existing
          ELSE IF at # 0
            THEN [existing EXCEPT ![at] =
                    [@ EXCEPT !.field_type = get_or(f, "type", @),
                              !.required = get_or(f, "required", @),
                              !.description = get_or(f, "description", @)]]
          ELSE IF parsed # <<>> THEN Append(existing, parsed[1])
          ELSE existing
    IN MergeFieldsFrom(next, new_fields, i + 1)

\* a merge that replaces the fields by those of the arguments
merge_fields_replacing(existing, new_fields) == parse_fields(Some(new_fields))

merge_fields(existing, new_fields) == MergeFieldsFrom(existing, new_fields, 1)

RECURSIVE MergeMethodsFrom(_, _, _)
MergeMethodsFrom(existing, new_methods, i) ==
  IF i > Len(new_methods) THEN existing
  ELSE
    LET m == new_methods[i]
        at == IF "name" \in DOMAIN m
                THEN position(existing, LAMBDA em : em.name = m.name) ELSE 0
        parsed == parse_methods(Some(<<m>>))
        next ==
          IF "name" \notin DOMAIN m THEN existing
          ELSE IF at # 0
            THEN [existing EXCEPT ![at] =
                    [@ EXCEPT !.description = get_or(m, "description", @),
                              !.return_type = get_or(m, "return_type", @)]]
          ELSE IF parsed # <<>> THEN Append(existing, parsed[1])
          ELSE existing
    IN MergeMethodsFrom(next, new_methods, i + 1)

merge_methods(existing, new_methods) == MergeMethodsFrom(existing, new_methods, 1)

\* "for inv in invariants { if !entity.invariants.iter().any(|i| i == s) { push } }"
RECURSIVE MergeInvariantsFrom(_, _, _)
MergeInvariantsFrom(existing, invariants, i) ==
  IF i > Len(invariants) THEN existing
  ELSE MergeInvariantsFrom(
         IF any(existing, LAMBDA inv : inv = invariants[i])
           THEN existing ELSE Append(existing, invariants[i]),
         invariants, i + 1)

\* a lookup that tells names apart by letter case
find_context_exact(m, ctx_name) ==
  position(m.bounded_contexts, LAMBDA bc : bc.name = ctx_name)

\* the position in model.bounded_contexts of the context a tool call names
find_context(m, ctx_name) ==
  position(m.bounded_contexts, LAMBDA bc : eq_ignore_ascii_case(bc.name, ctx_name))

context_not_found(ctx_name) ==
  error_result(Format("Bounded context '{}' not found", <<ctx_name>>))

\* Each tool: the model after the call and the ToolCallResult
update_bounded_context(m, args) ==
  LET ctx_name == arg_str(args, "name")
      at == find_context(m, ctx_name)
  IN
  IF is_empty(ctx_name)
    THEN [model |-> m, result |-> error_result(Format("'name' is required", <<>>))]
  ELSE IF at # 0
    THEN [model |-> [m EXCEPT !.bounded_contexts[at] =
                       [@ EXCEPT !.description = get_or(args, "description", @),
                                 !.module_path = get_or(args, "module_path", @),
                                 !.dependencies = get_or(args, "dependencies", @)]],
          result |-> text_result(Format("Updated bounded context '{}'", <<ctx_name>>))]
  ELSE [model |-> [m EXCEPT !.bounded_contexts = Append(@,
                     BoundedContext(ctx_name, arg_str(args, "description"),
                                    arg_str(args, "module_path"),
                                    <<>>, <<>>, <<>>, <<>>, <<>>,
                                    get_or(args, "dependencies", <<>>)))],
        result |-> text_result(Format("Created bounded context '{}'", <<ctx_name>>))]

update_entity(m, args) ==
  LET ctx_name == arg_str(args, "context")
      entity_name == arg_str(args, "name")
      at == find_context(m, ctx_name)
      bc == m.bounded_contexts[at]
      e_at == position(bc.entities, LAMBDA e : eq_ignore_ascii_case(e.name, entity_name))
  IN
  IF at = 0
    THEN [model |-> m, result |-> context_not_found(ctx_name)]
  ELSE IF e_at # 0
    THEN \* Merge updates
         [model |-> [m EXCEPT !.bounded_contexts[at].entities[e_at] =
                       [@ EXCEPT !.description = get_or(args, "description", @),
                                 !.aggregate_root = get_or(args, "aggregate_root", @),
                                 !.fields = IF "fields" \in DOMAIN args
                                              THEN merge_fields(@, args.fields) ELSE @,
                                 !.methods = IF "methods" \in DOMAIN args
                                               THEN merge_methods(@, args.methods) ELSE @,
                                 !.invariants = IF "invariants" \in DOMAIN args
                                                  THEN MergeInvariantsFrom(@, args.invariants, 1)
                                                  ELSE @]],
          result |-> text_result(Format("Updated entity '{}' in '{}'",
                                        <<entity_name, ctx_name>>))]
  ELSE [model |-> [m EXCEPT !.bounded_contexts[at].entities = Append(@,
                     Entity(entity_name, arg_str(args, "description"),
                            get_or(args, "aggregate_root", FALSE),
                            parse_fields(arg_array(args, "fields")),
                            parse_methods(arg_array(args, "methods")),
                            get_or(args, "invariants", <<>>)))],
        result |-> text_result(Format("Created entity '{}' in '{}'",
                                      <<entity_name, ctx_name>>))]

update_service(m, args) ==
  LET ctx_name == arg_str(args, "context")
      svc_name == arg_str(args, "name")
      at == find_context(m, ctx_name)
      bc == m.bounded_contexts[at]
      kind_arg == get_or(args, "kind", "domain")
      kind == CASE kind_arg = "application" -> "Application"
                [] kind_arg = "infrastructure" -> "Infrastructure"
                [] OTHER -> "Domain"
      s_at == position(bc.services, LAMBDA s : eq_ignore_ascii_case(s.name, svc_name))
  IN
  IF at = 0
    THEN [model |-> m, result |-> context_not_found(ctx_name)]
  ELSE IF s_at # 0
    THEN [model |-> [m EXCEPT !.bounded_contexts[at].services[s_at] =
                       [@ EXCEPT !.description = get_or(args, "description", @),
                                 !.kind = kind,
                                 !.dependencies = get_or(args, "dependencies", @),
                                 !.methods = IF "methods" \in DOMAIN args
                                               THEN merge_methods(@, args.methods) ELSE @]],
          result |-> text_result(Format("Updated service '{}' in '{}'",
                                        <<svc_name, ctx_name>>))]
  ELSE [model |-> [m EXCEPT !.bounded_contexts[at].services = Append(@,
                     Service(svc_name, arg_str(args, "description"), kind,
                             parse_methods(arg_array(args, "methods")),
                             get_or(args, "dependencies", <<>>)))],
        result |-> text_result(Format("Created service '{}' in '{}'",
                                      <<svc_name, ctx_name>>))]

update_event(m, args) ==
  LET ctx_name == arg_str(args, "context")
      event_name == arg_str(args, "name")
      at == find_context(m, ctx_name)
      bc == m.bounded_contexts[at]
      e_at == position(bc.events, LAMBDA e : eq_ignore_ascii_case(e.name, event_name))
  IN
  IF at = 0
    THEN [model |-> m, result |-> context_not_found(ctx_name)]
  ELSE IF e_at # 0
    THEN [model |-> [m EXCEPT !.bounded_contexts[at].events[e_at] =
                       [@ EXCEPT !.description = get_or(args, "description", @),
                                 !.source = get_or(args, "source", @),
                                 !.fields = IF "fields" \in DOMAIN args
                                              THEN merge_fields(@, args.fields) ELSE @]],
          result |-> text_result(Format("Updated event '{}' in '{}'",
                                        <<event_name, ctx_name>>))]
  ELSE [model |-> [m EXCEPT !.bounded_contexts[at].events = Append(@,
                     DomainEvent(event_name, arg_str(args, "description"),
                                 parse_fields(arg_array(args, "fields")),
                                 arg_str(args, "source")))],
        result |-> text_result(Format("Created event '{}' in '{}'",
                                      <<event_name, ctx_name>>))]

\* a remove_entity that drops the first entity of the context when none has
\* the name
remove_entity_dropping(m, args) ==
  LET ctx_name == arg_str(args, "context")
      entity_name == arg_str(args, "name")
      at == find_context(m, ctx_name)
  IN IF at = 0
       THEN [model |-> m, result |-> context_not_found(ctx_name)]
     ELSE IF any(m.bounded_contexts[at].entities,
                 LAMBDA e : eq_ignore_ascii_case(e.name, entity_name))
       THEN [model |-> [m EXCEPT !.bounded_contexts[at].entities =
                          filter(@, LAMBDA e : ~eq_ignore_ascii_case(e.name, entity_name))],
             result |-> text_result(Format("Removed entity '{}' from '{}'",
                                           <<entity_name, ctx_name>>))]
       ELSE [model |-> [m EXCEPT !.bounded_contexts[at].entities =
                          SubSeq(@, 2, Len(@))],
             result |-> error_result(Format("Entity '{}' not found in '{}'",
                                            <<entity_name, ctx_name>>))]

remove_entity(m, args) ==
  LET ctx_name == arg_str(args, "context")
      entity_name == arg_str(args, "name")
      at == find_context(m, ctx_name)
      bc == m.bounded_contexts[at]
      retained == filter(bc.entities, LAMBDA e : ~eq_ignore_ascii_case(e.name, entity_name))
  IN
  IF at = 0
    THEN [model |-> m, result |-> context_not_found(ctx_name)]
  ELSE [model |-> [m EXCEPT !.bounded_contexts[at].entities = retained],
        result |-> IF Len(retained) < Len(bc.entities)
                     THEN text_result(Format("Removed entity '{}' from '{}'",
                                             <<entity_name, ctx_name>>))
                     ELSE error_result(Format("Entity '{}' not found in '{}'",
                                              <<entity_name, ctx_name>>))]

\* a load_changes that takes an absent snapshot for the in-memory model
load_changes_no_fallback(st, ws, m, io_ok) ==
  IF ~io_ok
    THEN Err("store")
    ELSE LET loaded == store_load(st, ws)
         IN Ok(diff_models(IF is_some(loaded) THEN loaded[1] ELSE m, m))

\* Load persisted model and compute changes against the in-memory model.
\* io_ok: whether the query of Store::load succeeds ("?" returns its error)
load_changes(st, ws, m, io_ok) ==
  IF ~io_ok
    THEN Err("store")
    ELSE LET loaded == store_load(st, ws)
             persisted == IF is_some(loaded) THEN loaded[1] ELSE empty(ws)
         IN Ok(diff_models(persisted, m))

compare_model(st, ws, m, io_ok) ==
  LET loaded == load_changes(st, ws, m, io_ok)
  IN IF loaded.ok
       THEN IF loaded.value = <<>>
              THEN text_result([status |-> "no_changes"])
              ELSE text_result([status |-> "changes_detected",
                                change_count |-> Len(loaded.value),
                                changes |-> loaded.value])
       ELSE error_result(Format("Failed to compare models: {}", <<loaded.error>>))

draft_refactoring_plan(st, ws, m, io_ok) ==
  LET loaded == load_changes(st, ws, m, io_ok)
  IN IF loaded.ok
       THEN IF loaded.value = <<>>
              THEN text_result([status |-> "no_changes"])
              ELSE text_result(plan_refactoring(loaded.value, m.conventions))
       ELSE error_result(Format("Failed to load persisted model: {}", <<loaded.error>>))

\* io_ok: whether Store::save succeeds
save_model(st, ws, m, io_ok) ==
  IF io_ok
    THEN [store |-> store_save(st, ws, m),
          result |-> text_result(Format("Domain model saved to store for workspace: {}",
                                        <<ws>>))]
    ELSE [store |-> st, result |-> error_result(Format("Failed to save: {}", <<"store">>))]

(***************************************************************************)
(* Inputs: the snapshots a store or an import file may hold, and the       *)
(* arguments of the tool calls                                             *)
(***************************************************************************)
\* the number of update-tool calls, imports and restarts in one behaviour
MaxUpdates == 2

\* base_model() of the tests of diff.rs
BaseModel ==
  DomainModel(Lit("Test"), Lit(""),
    <<BoundedContext(Lit("Identity"), Lit(""), Lit("src/identity"),
        <<Entity(Lit("User"), Lit(""), TRUE,
                 <<Field(Lit("id"), Lit("UserId"), TRUE, Lit(""))>>, <<>>, <<>>)>>,
        <<>>, <<>>, <<>>, <<>>, <<>>)>>,
    <<>>,
    Conventions(FileStructure(Lit("src/{context}/{layer}/{type}.rs"),
                              <<Lit("domain"), Lit("application")>>)))

\* a model using every collection; its context is spelled in lower case, and
\* its conventions name layers and no path pattern
RichModel ==
  DomainModel(Lit("Shop"), Lit("d"),
    <<BoundedContext(Lit("identity"), Lit("d"), Lit("src/auth"),
        <<Entity(Lit("User"), Lit(""), FALSE,
                 <<Field(Lit("id"), Lit("Uuid"), TRUE, Lit("")),
                   Field(Lit("avatar"), Lit("String"), FALSE, Lit(""))>>,
                 <<Method(Lit("rename"), Lit(""), <<>>, Lit(""))>>,
                 <<Lit("Email must be unique")>>),
          Entity(Lit("Role"), Lit(""), FALSE, <<>>, <<>>, <<>>)>>,
        <<ValueObject(Lit("Money"), Lit(""), <<>>, <<>>),
          ValueObject(Lit("invariants"), Lit(""), <<>>, <<>>)>>,
        <<Service(Lit("AuthService"), Lit(""), "Infrastructure",
                  <<Method(Lit("login"), Lit(""), <<>>, Lit("Token"))>>,
                  <<Lit("UserRepo")>>)>>,
        <<Repository(Lit("UserRepo"), Lit("User"), <<>>)>>,
        <<DomainEvent(Lit("UserRegistered"), Lit(""), <<>>, Lit("User"))>>,
        <<Lit("Billing")>>),
      BoundedContext(Lit("Billing"), Lit(""), Lit(""),
        <<>>, <<>>, <<>>, <<>>, <<>>, <<>>)>>,
    <<ArchitecturalRule(Lit("R1"), Lit("no cycles"), "Error", Lit("")),
      ArchitecturalRule(Lit("r1"), Lit("layering"), "Warning", Lit("")),
      ArchitecturalRule(Lit("R2"), Lit("naming"), "Info", Lit(""))>>,
    Conventions(FileStructure(Lit(""), <<Lit("domain"), Lit("infrastructure")>>)))

\* a model that passes validation with names that are not unique
DuplicatesModel ==
  DomainModel(Lit("Test"), Lit(""),
    <<BoundedContext(Lit("Identity"), Lit(""), Lit("src/identity"),
        <<>>, <<>>, <<>>, <<>>, <<>>, <<>>),
      BoundedContext(Lit("Identity"), Lit(""), Lit("src/identity"),
        <<Entity(Lit("Role"), Lit(""), FALSE,
                 <<Field(Lit("id"), Lit("UserId"), TRUE, Lit("")),
                   Field(Lit("ID"), Lit("Uuid"), TRUE, Lit(""))>>, <<>>, <<>>)>>,
        <<>>, <<>>, <<>>, <<>>, <<>>)>>,
    <<>>,
    ConventionsDefault)

\* a file with an entity that has no name: every key but the required ones absent
UnnamedEntityFile ==
  [name |-> Lit("Test"),
   bounded_contexts |-> <<[name |-> Lit("Identity"), entities |-> <<[name |-> Lit("")]>>]>>]

\* a file that leaves out every #[serde(default)] key
SparseFile ==
  [name |-> Lit("Test"),
   bounded_contexts |-> <<[name |-> Lit("Identity"),
                           entities |-> <<[name |-> Lit("User"),
                                           fields |-> <<[name |-> Lit("id"),
                                                         type |-> Lit("UserId")]>>]>>]>>]

\* the snapshots the store may hold for the workspace when the server starts
SeedModels == {BaseModel, RichModel}

\* the --workspace argument of "domcp serve"
ServeWorkspace == Lit("/ws")

\* the runs of "domcp import <file> --workspace <ws>"
ImportJobs ==
  {[file |-> to_json(RichModel), ws |-> Lit("/ws/")],
   [file |-> UnnamedEntityFile, ws |-> Lit("/ws/")],
   [file |-> SparseFile, ws |-> Lit("/ws")],
   [file |-> to_json(DuplicatesModel), ws |-> Lit("/ws")],
   [file |-> to_json(RichModel), ws |-> Lit("/other")]}

UpdateBoundedContextArgs ==
  {[description |-> Lit("d")],
   [name |-> Lit("identity"), module_path |-> Lit("src/auth")],
   [name |-> Lit("Identity"), module_path |-> Lit(""),
    dependencies |-> <<Lit("Billing")>>],
   [name |-> Lit("Billing"), description |-> Lit("d"), module_path |-> Lit("src/billing"),
    dependencies |-> <<Lit("Identity")>>]}

UpdateEntityArgs ==
  {[context |-> Lit("Nonexistent"), name |-> Lit("Foo")],
   [context |-> Lit("Identity")],
   [context |-> Lit("Identity"), name |-> Lit("Role")],
   [context |-> Lit("identity"), name |-> Lit("user"),
    fields |-> <<[name |-> Lit("ID"), type |-> Lit("Uuid")]>>,
    methods |-> <<[name |-> Lit("rename"), return_type |-> Lit("void")],
                  [name |-> Lit("login")]>>,
    invariants |-> <<Lit("Email must be unique"), Lit("Name is not empty")>>],
   [context |-> Lit("Identity"), name |-> Lit("User"), aggregate_root |-> FALSE,
    fields |-> <<[name |-> Lit("id"), type |-> Lit("Uuid")],
                 [name |-> Lit("email"), type |-> Lit("String"), required |-> TRUE],
                 [name |-> Lit("avatar")]>>]}

UpdateServiceArgs ==
  {[context |-> Lit("Nonexistent"), name |-> Lit("AuthService")],
   [context |-> Lit("Identity"), name |-> Lit("AuthService"), kind |-> "application",
    methods |-> <<[name |-> Lit("login"), return_type |-> Lit("Session")]>>],
   [context |-> Lit("Identity"), name |-> Lit("authservice"),
    methods |-> <<[name |-> Lit("logout"), return_type |-> Lit("void")]>>]}

UpdateEventArgs ==
  {[context |-> Lit("Nonexistent"), name |-> Lit("UserRegistered")],
   [context |-> Lit("Identity"), name |-> Lit("UserRegistered"), source |-> Lit("User"),
    fields |-> <<[name |-> Lit("user_id"), type |-> Lit("UserId")]>>]}

RemoveEntityArgs ==
  {[context |-> Lit("Nonexistent"), name |-> Lit("User")],
   [context |-> Lit("Identity"), name |-> Lit("NotHere")],
   [context |-> Lit("Identity"), name |-> Lit("user")]}

(***************************************************************************)
(* The server: main.rs (serve, import) and the tools/call dispatch         *)
(***************************************************************************)
\* "domcp serve": the in-memory model the server starts with
serve_model(st, ws) ==
  LET loaded == store_load(st, ws)
  IN IF is_some(loaded) THEN loaded[1] ELSE empty(ws)

EmptyStore == [k \in {} |-> None]

\* the history after a successful Store::save of m under ws
Saved(history, ws, m) ==
  [k \in DOMAIN history \cup {canonicalize_path(ws)} |->
     IF k = canonicalize_path(ws) THEN m ELSE history[k]]

\* no line has been written to the standard input
StdioIdle ==
  /\ stdin = <<>>
  /\ cursor = 0
  /\ stdout = <<>>
  /\ pc = "read"

Init ==
  /\ workspace_path = ServeWorkspace
  /\ \/ store = EmptyStore /\ last_saved = EmptyStore
     \/ \E seed \in SeedModels :
          /\ store = store_save(EmptyStore, ServeWorkspace, seed)
          /\ last_saved = Saved(EmptyStore, ServeWorkspace, seed)
  /\ model = serve_model(store, workspace_path)
  /\ response = [tool |-> "none", result |-> text_result(Format("", <<>>))]
  /\ updates = 0
  /\ saved = FALSE
  /\ snake_in = <<>>
  /\ snake_out = None
  /\ StdioIdle

\* an update-tool call: the model is mutated in place, the store is not touched
Call(tool, outcome) ==
  /\ updates < MaxUpdates
  /\ updates' = updates + 1
  /\ model' = outcome.model
  /\ response' = [tool |-> tool, result |-> outcome.result]
  /\ saved' = FALSE
  /\ UNCHANGED <<store, workspace_path, snake_in, snake_out, last_saved, stdio_vars>>

UpdateBoundedContext ==
  \E args \in UpdateBoundedContextArgs :
    Call("update_bounded_context", update_bounded_context(model, args))

UpdateEntity ==
  \E args \in UpdateEntityArgs : Call("update_entity", update_entity(model, args))

UpdateService ==
  \E args \in UpdateServiceArgs : Call("update_service", update_service(model, args))

UpdateEvent ==
  \E args \in UpdateEventArgs : Call("update_event", update_event(model, args))

RemoveEntity ==
  \E args \in RemoveEntityArgs : Call("remove_entity", remove_entity(model, args))

CompareModel ==
  /\ \E io_ok \in BOOLEAN :
       response' = [tool |-> "compare_model",
                    result |-> compare_model(store, workspace_path, model, io_ok)]
  /\ UNCHANGED <<model, store, workspace_path, updates, saved, snake_in, snake_out, last_saved, stdio_vars>>

\* a draft_refactoring_plan that persists the model it planned for
DraftRefactoringPlanSaving ==
  /\ \E io_ok \in BOOLEAN :
       response' = [tool |-> "draft_refactoring_plan",
                    result |-> draft_refactoring_plan(store, workspace_path, model, io_ok)]
  /\ store' = store_save(store, workspace_path, model)
  /\ UNCHANGED <<model, workspace_path, updates, saved, snake_in, snake_out, last_saved, stdio_vars>>

DraftRefactoringPlan ==
  /\ \E io_ok \in BOOLEAN :
       response' = [tool |-> "draft_refactoring_plan",
                    result |-> draft_refactoring_plan(store, workspace_path, model, io_ok)]
  /\ UNCHANGED <<model, store, workspace_path, updates, saved, snake_in, snake_out, last_saved, stdio_vars>>

SaveModel ==
  \E io_ok \in BOOLEAN :
    LET outcome == save_model(store, workspace_path, model, io_ok)
    IN /\ store' = outcome.store
       /\ response' = [tool |-> "save_model", result |-> outcome.result]
       /\ saved' = (io_ok \/ saved)
       /\ last_saved' = IF io_ok THEN Saved(last_saved, workspace_path, model)
                                  ELSE last_saved
       /\ UNCHANGED <<model, workspace_path, updates, snake_in, snake_out, stdio_vars>>

\* "domcp import <file> --workspace <ws>", run beside the server:
\* DomainModel::load parses and validates the file, Store::save stores it
Import ==
  \E job \in ImportJobs :
    /\ updates < MaxUpdates
    /\ updates' = updates + 1
    /\ store' = IF validate(from_json(job.file))
                  THEN store_save(store, job.ws, from_json(job.file))
                  ELSE store
    /\ saved' = (saved /\ store' = store)
    /\ last_saved' = IF validate(from_json(job.file))
                       THEN Saved(last_saved, job.ws, from_json(job.file))
                       ELSE last_saved
    /\ UNCHANGED <<model, workspace_path, response, snake_in, snake_out, stdio_vars>>

\* the server is stopped and started again on the same workspace
Restart ==
  /\ updates < MaxUpdates
  /\ updates' = updates + 1
  /\ model' = serve_model(store, workspace_path)
  /\ response' = [tool |-> "none", result |-> text_result(Format("", <<>>))]
  /\ saved' = FALSE
  /\ UNCHANGED <<store, workspace_path, snake_in, snake_out, last_saved, stdio_vars>>

Next ==
  \/ UpdateBoundedContext
  \/ UpdateEntity
  \/ UpdateService
  \/ UpdateEvent
  \/ RemoveEntity
  \/ CompareModel
  \/ DraftRefactoringPlan
  \/ SaveModel
  \/ Import
  \/ Restart

Spec == Init /\ [][Next]_vars

(***************************************************************************)
(* A caller of to_snake (domain/mod.rs), as resolve_path and the planner   *)
(* are: the function applied to one string                                 *)
(***************************************************************************)
\* the longest generated input of to_snake
MaxLen == 4

\* a lowercase letter, two uppercase letters, a character without case and an
\* uppercase letter outside ASCII
SnakeAlphabet == {"a", "B", "C", "_", "É"}

\* the inputs of the tests of domain/mod.rs
SnakeTestInputs ==
  {Lit("UserService"), Lit("UserID"), Lit("HTMLParser"), Lit("getHTTPResponse"),
   Lit("already_snake")}

SnakeInputs ==
  SnakeTestInputs \cup UNION {[1..len -> SnakeAlphabet] : len \in 0..MaxLen}

\* the state of the server, which takes no step while to_snake is called alone
ServerIdle ==
  /\ workspace_path = ServeWorkspace
  /\ store = EmptyStore
  /\ last_saved = EmptyStore
  /\ model = serve_model(store, workspace_path)
  /\ response = [tool |-> "none", result |-> text_result(Format("", <<>>))]
  /\ updates = 0
  /\ saved = FALSE
  /\ StdioIdle

SnakeInit ==
  /\ ServerIdle
  /\ snake_in \in SnakeInputs
  /\ snake_out = None

ToSnake ==
  /\ snake_out = None
  /\ snake_out' = Some(to_snake(snake_in))
  /\ UNCHANGED <<snake_in, server_vars, last_saved, stdio_vars>>

SnakeNext == ToSnake

SnakeSpec == SnakeInit /\ [][SnakeNext]_vars

(***************************************************************************)
(* A client of the store alone (store/sqlite.rs): save, load and list      *)
(* called in any order on a store that starts empty                        *)
(***************************************************************************)
\* the number of Store::save calls in one behaviour
MaxSaves == 3

\* the workspace_path arguments: two spellings of one directory, another
\* directory, the root and the empty path
StorePaths == {Lit("/ws"), Lit("/ws/"), Lit("/other"), Lit("/"), Lit("")}

StoreModels == {BaseModel, RichModel}

StoreInit ==
  /\ ServerIdle
  /\ snake_in = <<>>
  /\ snake_out = None

\* Store::save; io_ok: whether the INSERT succeeds
StoreSave ==
  \E path \in StorePaths, m \in StoreModels, io_ok \in BOOLEAN :
    /\ updates < MaxSaves
    /\ updates' = updates + 1
    /\ store' = IF io_ok THEN store_save(store, path, m) ELSE store
    /\ last_saved' = IF io_ok THEN Saved(last_saved, path, m) ELSE last_saved
    /\ response' = [tool |-> "save", path |-> path,
                    result |-> IF io_ok THEN Ok(<<>>) ELSE Err("store")]
    /\ UNCHANGED <<model, workspace_path, saved, snake_vars, stdio_vars>>

StoreLoad ==
  \E path \in StorePaths :
    /\ response' = [tool |-> "load", path |-> path, result |-> Ok(store_load(store, path))]
    /\ UNCHANGED <<model, store, workspace_path, updates, saved, snake_vars, last_saved, stdio_vars>>

StoreList ==
  /\ response' = [tool |-> "list", path |-> <<>>, result |-> Ok(store_list(store))]
  /\ UNCHANGED <<model, store, workspace_path, updates, saved, snake_vars, last_saved, stdio_vars>>

StoreNext ==
  \/ StoreSave
  \/ StoreLoad
  \/ StoreList

StoreSpec == StoreInit /\ [][StoreNext]_vars

(***************************************************************************)
(* The stdio transport (server/stdio.rs): run reads the standard input     *)
(* line by line, handle_request dispatches each request to the tools, the  *)
(* resources and the prompts, send writes the response.  A line is either  *)
(* text that is no JSON, [text |-> chars], or a JSON object, [json |-> o]. *)
(* updates and saved, the bookkeeping of Spec, are not kept here.          *)
(***************************************************************************)
JsonNumber(n) == [json |-> "number", v |-> n]

JsonNull == [json |-> "null"]

\* JsonRpcResponse::success
\* a success response that does not echo the id of the request
JsonRpcResponse_success_anonymous(id, result) ==
  [jsonrpc |-> "2.0", id |-> None, result |-> Some(result), error |-> None]

JsonRpcResponse_success(id, result) ==
  [jsonrpc |-> "2.0", id |-> id, result |-> Some(result), error |-> None]

\* JsonRpcResponse::error
JsonRpcResponse_error(id, code, message) ==
  [jsonrpc |-> "2.0", id |-> id, result |-> None,
   error |-> Some([code |-> code, message |-> message])]

\* str::trim on a line of spaces and other characters
RECURSIVE trim(_)
trim(s) ==
  IF s = <<>> THEN s
  ELSE IF Head(s) = " " THEN trim(Tail(s))
  ELSE IF s[Len(s)] = " " THEN trim(SubSeq(s, 1, Len(s) - 1))
  ELSE s

\* str::to_lowercase, which follows Unicode
to_lowercase(s) ==
  [i \in DOMAIN s |->
     IF is_ascii_uppercase(s[i]) THEN to_ascii_lowercase(s[i])
     ELSE IF \E k \in 1..Len(UnicodeUpper) : UnicodeUpper[k] = s[i]
       THEN UnicodeLower[CHOOSE k \in 1..Len(UnicodeUpper) : UnicodeUpper[k] = s[i]]
       ELSE s[i]]

\* serde_json::from_str::<JsonRpcRequest>: jsonrpc and method are required,
\* an id that is absent or null is None, params default to None
from_str(line) ==
  IF "json" \in DOMAIN line /\ {"jsonrpc", "method"} \subseteq DOMAIN line.json
    THEN Ok([id |-> IF "id" \in DOMAIN line.json /\ line.json.id # JsonNull
                      THEN Some(line.json.id) ELSE None,
             method |-> line.json.method,
             params |-> IF "params" \in DOMAIN line.json
                          THEN Some(line.json.params) ELSE None])
    ELSE Err("parse")

\* tools::call_tool, with the arms of the tools the requests below call
call_tool(m, name, args) ==
  CASE name = "get_bounded_context" ->
         LET ctx_name == arg_str(args, "name")
             at == find_context(m, ctx_name)
         IN IF at # 0
              THEN text_result(context_to_json(m.bounded_contexts[at]))
              ELSE error_result(Format("Bounded context '{}' not found. Available: {}",
                                       <<ctx_name, map(m.bounded_contexts,
                                                       LAMBDA bc : bc.name)>>))
    [] name = "get_architectural_rules" -> text_result(map(m.rules, rule_to_json))
    [] name = "get_conventions" -> text_result(conventions_to_json(m.conventions))
    [] OTHER -> error_result(Format("Unknown tool: {}", <<name>>))

\* resources::list_resources
list_resources(m) ==
  <<Lit("domcp://architecture/overview"), Lit("domcp://architecture/rules"),
    Lit("domcp://architecture/conventions")>>
  \o map(m.bounded_contexts, LAMBDA bc : Lit("domcp://context/") \o to_lowercase(bc.name))

\* resources::read_resource, but for the architecture overview
read_resource(m, uri) ==
  LET content ==
        CASE uri = Lit("domcp://architecture/rules") ->
               [mime_type |-> "application/json", text |-> map(m.rules, rule_to_json)]
          [] uri = Lit("domcp://architecture/conventions") ->
               [mime_type |-> "application/json",
                text |-> conventions_to_json(m.conventions)]
          [] MatchesAt(uri, Lit("domcp://context/"), 1) ->
               LET ctx_name == SubSeq(uri, Len(Lit("domcp://context/")) + 1, Len(uri))
                   at == find_context(m, ctx_name)
               IN IF at # 0
                    THEN [mime_type |-> "application/json",
                          text |-> context_to_json(m.bounded_contexts[at])]
                    ELSE [mime_type |-> "text/plain",
                          text |-> Format("Bounded context '{}' not found", <<ctx_name>>)]
          [] OTHER ->
               [mime_type |-> "text/plain", text |-> Format("Unknown resource: {}", <<uri>>)]
  IN [contents |-> <<[uri |-> uri, mime_type |-> content.mime_type, text |-> content.text]>>]

\* prompts::get_prompt: the guidelines name the project and its contexts
get_prompt(m, name) ==
  IF name = "domcp_guidelines"
    THEN Some([description |-> "guidelines",
               messages |-> <<[role |-> "user",
                               content |-> Format("{} {}",
                                 <<m.name, map(m.bounded_contexts,
                                               LAMBDA bc : bc.name)>>)]>>])
    ELSE None

\* a mutation that is written through to the store
Mutated_persisting(st, outcome) ==
  [model |-> outcome.model, store |-> store_save(st, ServeWorkspace, outcome.model),
   result |-> outcome.result]

\* the outcome of a tool that mutates the model only
Mutated(st, outcome) == [model |-> outcome.model, store |-> st, result |-> outcome.result]

\* the outcome of a tool that only reads
Answered(m, st, result) == [model |-> m, store |-> st, result |-> result]

\* Dispatches a write tool call.  io_ok: whether the store call of
\* compare_model, draft_refactoring_plan or save_model succeeds
call_write_tool(m, ws, st, name, args, io_ok) ==
  CASE name = "update_bounded_context" -> Mutated(st, update_bounded_context(m, args))
    [] name = "update_entity" -> Mutated(st, update_entity(m, args))
    [] name = "update_service" -> Mutated(st, update_service(m, args))
    [] name = "update_event" -> Mutated(st, update_event(m, args))
    [] name = "remove_entity" -> Mutated(st, remove_entity(m, args))
    [] name = "compare_model" -> Answered(m, st, compare_model(st, ws, m, io_ok))
    [] name = "draft_refactoring_plan" ->
         Answered(m, st, draft_refactoring_plan(st, ws, m, io_ok))
    [] name = "save_model" ->
         LET outcome == save_model(st, ws, m, io_ok)
         IN [model |-> m, store |-> outcome.store, result |-> outcome.result]
    [] OTHER -> Answered(m, st, error_result(Format("Unknown write tool: {}", <<name>>)))

\* List of write-tool names used to route tools/call to the mutable path.
WRITE_TOOLS ==
  {"update_bounded_context", "update_entity", "update_service", "update_event",
   "remove_entity", "compare_model", "draft_refactoring_plan", "save_model"}

\* the model and the store after the request, and the JsonRpcResponse
Handled(m, st, response_) == [model |-> m, store |-> st, response |-> response_]

\* "let params: P = match req.params ...": Err for params that are missing
\* or lack the required key
params_of(req, key) ==
  IF req.params = None THEN Err("Missing params")
  ELSE IF key \in DOMAIN req.params[1] THEN Ok(req.params[1])
  ELSE Err("Invalid params: {}")

\* the tools/call arm after its params are parsed: the tool is routed to the
\* mutable path or to the read tools, and its result is the response
tool_called(id, outcome) ==
  Handled(outcome.model, outcome.store, JsonRpcResponse_success(id, outcome.result))

tools_call(m, ws, st, id, params, io_ok) ==
  IF ~params.ok
    THEN Handled(m, st, JsonRpcResponse_error(id, -32602, params.error))
    ELSE tool_called(id,
           IF params.value.name \in WRITE_TOOLS
             THEN call_write_tool(m, ws, st, params.value.name,
                                  get_or(params.value, "arguments", <<>>), io_ok)
             ELSE Answered(m, st, call_tool(m, params.value.name,
                                            get_or(params.value, "arguments", <<>>))))

\* the resources/read arm after its params are parsed
resources_read(m, st, id, params) ==
  IF ~params.ok
    THEN Handled(m, st, JsonRpcResponse_error(id, -32602, params.error))
    ELSE Handled(m, st, JsonRpcResponse_success(id, read_resource(m, params.value.uri)))

\* the prompts/get arm after its params are parsed and the prompt is resolved
prompts_get(m, st, id, params, prompt) ==
  IF ~params.ok
    THEN Handled(m, st, JsonRpcResponse_error(id, -32602, params.error))
  ELSE IF is_some(prompt)
    THEN Handled(m, st, JsonRpcResponse_success(id, prompt[1]))
    ELSE Handled(m, st, JsonRpcResponse_error(id, -32602, "Prompt not found: {}"))

handle_request(m, ws, st, req, io_ok) ==
  CASE req.method = "initialize" ->
         Handled(m, st, JsonRpcResponse_success(req.id,
           [protocol_version |-> "2025-03-26",
            server_info |-> [name |-> Format("domcp ({})", <<m.name>>)]]))
    [] req.method \in {"notifications/initialized", "initialized", "ping"} ->
         Handled(m, st, JsonRpcResponse_success(req.id, <<>>))
    [] req.method = "tools/list" ->
         Handled(m, st, JsonRpcResponse_success(req.id, [tools |-> "all_tools"]))
    [] req.method = "tools/call" ->
         tools_call(m, ws, st, req.id, params_of(req, "name"), io_ok)
    [] req.method = "resources/list" ->
         Handled(m, st, JsonRpcResponse_success(req.id, [resources |-> list_resources(m)]))
    [] req.method = "resources/read" ->
         resources_read(m, st, req.id, params_of(req, "uri"))
    [] req.method = "prompts/list" ->
         Handled(m, st, JsonRpcResponse_success(req.id, [prompts |-> <<"domcp_guidelines">>]))
    [] req.method = "prompts/get" ->
         prompts_get(m, st, req.id, params_of(req, "name"),
                     IF params_of(req, "name").ok
                       THEN get_prompt(m, params_of(req, "name").value.name) ELSE None)
    [] OTHER ->
         Handled(m, st, JsonRpcResponse_error(req.id, -32601, "Method not found: {}"))

\* the number of lines a client writes in one behaviour
MaxLines == 3

\* a request line with an id, and a notification line
Request(id, method, params) ==
  [json |-> [jsonrpc |-> "2.0", id |-> JsonNumber(id), method |-> method,
             params |-> params]]

Notification(method, params) ==
  [json |-> [jsonrpc |-> "2.0", method |-> method, params |-> params]]

\* the lines a client may write: blank, no JSON, JSON that is no request,
\* requests and notifications of update tools, save_model, read tools,
\* resources and prompts, an unknown tool, an unknown method, tools/call
\* without params and with params that name no tool, an id used twice and
\* an id of null
StdioLines ==
  {[text |-> Lit("  ")],
   [text |-> Lit("not json")],
   [json |-> [id |-> JsonNumber(9), method |-> "ping"]],
   [json |-> [jsonrpc |-> "2.0", id |-> JsonNull, method |-> "tools/list"]],
   [json |-> [jsonrpc |-> "2.0", id |-> JsonNumber(1), method |-> "ping"]],
   [json |-> [jsonrpc |-> "2.0", id |-> JsonNumber(4), method |-> "tools/call"]],
   [json |-> [jsonrpc |-> "2.0", id |-> JsonNumber(5), method |-> "foo/bar"]],
   [json |-> [jsonrpc |-> "2.0", method |-> "foo/bar"]],
   Request(1, "tools/call",
           [name |-> "update_entity",
            arguments |-> [context |-> Lit("Identity"), name |-> Lit("Role")]]),
   Notification("tools/call",
                [name |-> "update_bounded_context", arguments |-> [name |-> Lit("Billing")]]),
   Request(2, "tools/call", [name |-> "save_model"]),
   Request(3, "tools/call", [name |-> "no_such_tool"]),
   Request(6, "tools/call", [arguments |-> [name |-> Lit("Billing")]]),
   Request(7, "tools/call",
           [name |-> "get_bounded_context", arguments |-> [name |-> Lit("identity")]]),
   Request(8, "resources/read", [uri |-> Lit("domcp://context/identity")]),
   Request(10, "prompts/get", [name |-> "domcp_guidelines"]),
   Request(11, "tools/call",
           [name |-> "remove_entity",
            arguments |-> [context |-> Lit("Identity"), name |-> Lit("NotHere")]])}

\* the snapshot the store holds when the server starts
StdioSeed == BaseModel

StdioInit ==
  /\ workspace_path = ServeWorkspace
  /\ store = store_save(EmptyStore, ServeWorkspace, StdioSeed)
  /\ last_saved = Saved(EmptyStore, ServeWorkspace, StdioSeed)
  /\ model = serve_model(store, workspace_path)
  /\ response = JsonRpcResponse_success(None, <<>>)
  /\ updates = 0
  /\ saved = FALSE
  /\ snake_in = <<>>
  /\ snake_out = None
  /\ stdin \in UNION {[1..len -> StdioLines] : len \in 0..MaxLines}
  /\ cursor = 0
  /\ stdout = <<>>
  /\ pc = "read"

\* lines.next_line() returns a line
ReadLine ==
  /\ pc = "read"
  /\ cursor < Len(stdin)
  /\ cursor' = cursor + 1
  /\ pc' = "handle"
  /\ UNCHANGED <<server_vars, snake_vars, last_saved, stdin, stdout>>

\* lines.next_line() returns None: the loop ends
EndOfInput ==
  /\ pc = "read"
  /\ cursor = Len(stdin)
  /\ pc' = "done"
  /\ UNCHANGED <<server_vars, snake_vars, last_saved, stdin, cursor, stdout>>

\* the body of the loop up to send: a blank line is skipped, a line that is
\* no request is answered with a parse error, a request is handled and
\* answered when it has an id
HandleLine ==
  /\ pc = "handle"
  /\ LET line == stdin[cursor]
         request == from_str(line)
     IN IF "text" \in DOMAIN line /\ is_empty(trim(line.text))
          THEN /\ pc' = "read"
               /\ UNCHANGED <<model, store, response, last_saved>>
        ELSE IF ~request.ok
          THEN /\ response' = JsonRpcResponse_error(None, -32700, "Parse error: {}")
               /\ pc' = "send"
               /\ UNCHANGED <<model, store, last_saved>>
        ELSE \E io_ok \in BOOLEAN :
               \E handled \in {handle_request(model, workspace_path, store,
                                               request.value, io_ok)} :
                  /\ model' = handled.model
                  /\ store' = handled.store
                  /\ last_saved' = IF handled.store # store
                                     THEN Saved(last_saved, workspace_path, model)
                                     ELSE last_saved
                  /\ response' = handled.response
                  /\ pc' = IF is_some(request.value.id) THEN "send" ELSE "read"
  /\ UNCHANGED <<workspace_path, updates, saved, snake_vars, stdin, cursor, stdout>>

\* send: the response is written as one line
Send ==
  /\ pc = "send"
  /\ stdout' = Append(stdout, response)
  /\ pc' = "read"
  /\ UNCHANGED <<server_vars, snake_vars, last_saved, stdin, cursor>>

StdioNext ==
  \/ ReadLine
  \/ HandleLine
  \/ Send
  \/ EndOfInput

StdioSpec == StdioInit /\ [][StdioNext]_vars

(***************************************************************************)
(* Properties                                                              *)
(***************************************************************************)
\* the snapshot compare_model and draft_refactoring_plan diff against
Persisted ==
  LET loaded == store_load(store, workspace_path)
  IN IF is_some(loaded) THEN loaded[1] ELSE empty(workspace_path)

\* every model held in the state: the in-memory model and each stored snapshot
Snapshots ==
  {model} \cup {from_json(store[key].model_json) : key \in DOMAIN store}

Range(seq) == {seq[i] : i \in DOMAIN seq}

NoChanges == text_result([status |-> "no_changes"])

ReadTools == {"compare_model", "draft_refactoring_plan"}

\* C1: diff_models(M, M) is the empty change sequence for every model M that
\* passes validation, whether or not the names inside M are unique.
C1_DiffOfModelWithItselfIsEmpty ==
  \A M \in Snapshots : validate(M) => diff_models(M, M) = <<>>

\* C2: after save_model, and for as long as no update_* / remove_entity call
\* is made, compare_model and draft_refactoring_plan return the no_changes marker.
C2_NoChangesAfterSave ==
  (saved /\ response.tool \in ReadTools /\ ~response.result.is_error)
    => response.result = NoChanges

\* C4: in every state reached by write-tool calls from a valid model, every
\* bounded-context name and every entity name of the in-memory model is non-empty.
C4_NamesNonEmpty ==
  \A bc \in Range(model.bounded_contexts) :
    /\ ~is_empty(bc.name)
    /\ \A e \in Range(bc.entities) : ~is_empty(e.name)

\* C5: a persisted snapshot that violates validation is rejected when it is
\* loaded from the store: what Store::load hands to load_changes and to the
\* server start passes validation.
C5_LoadedSnapshotIsValid ==
  LET loaded == store_load(store, workspace_path)
  IN is_some(loaded) => validate(loaded[1])

\* the changes compare_model and draft_refactoring_plan compute in this state
Changes == diff_models(Persisted, model)

\* the changes the differ emits for a child collection of a context
ChildChangeFormats ==
  {"New entity '{}' in context '{}'", "Removed entity '{}' from context '{}'",
   "New service '{}' in context '{}'", "Removed service '{}' from context '{}'",
   "New event '{}' in context '{}'", "Removed event '{}' from context '{}'",
   "New value object '{}' in context '{}'", "Removed value object '{}' from context '{}'",
   "New repository '{}' in context '{}'", "Removed repository '{}' from context '{}'",
   "New dependency: {} -> {}", "Removed dependency: {} -> {}"}

IsChildChange(c) == c.kind \in {"Added", "Removed"} /\ c.description.fmt \in ChildChangeFormats

Opposite(kind) == IF kind = "Added" THEN "Removed" ELSE "Added"

\* every child change of forward has its opposite in backward, at the path
\* Mirror gives for it
Mirrored(forward, backward, Mirror(_)) ==
  \A c \in Range(forward) :
    IsChildChange(c) =>
      \E d \in Range(backward) : d.kind = Opposite(c.kind) /\ d.path = Mirror(c.path)

\* path with its leading context name, of the length of ctx, replaced by ctx
WithContext(ctx, path) == ctx \o SubSeq(path, Len(ctx) + 1, Len(path))

\* the pairs of contexts of (A, B) the differ may pair: equal names up to ASCII case
MatchedContexts(A, B) ==
  {<<a, b>> \in Range(A.bounded_contexts) \X Range(B.bounded_contexts) : same_name(a, b)}

ExpectedActions(change, conventions) ==
  LET emitted == change.description.fmt
  IN CASE emitted = "New bounded context: {}" ->
            map(conventions.file_structure.layers,
                LAMBDA layer : "Create {} layer module for context '{}'")
       [] emitted = "New entity '{}' in context '{}'" ->
            <<"Create entity '{}'", "Add unit tests for entity '{}'">>
       [] emitted = "New field '{}: {}' on entity '{}'" -> <<"Add field '{}' to entity '{}'">>
       [] emitted = "New service '{}' in context '{}'" -> <<"Create service '{}'">>
       [] emitted = "New event '{}' in context '{}'" -> <<"Create domain event '{}'">>
       [] emitted = "New invariant on '{}': {}" -> <<"Add test for new invariant on '{}'">>
       [] emitted = "New dependency: {} -> {}" -> <<"Wire dependency '{}' -> '{}'">>
       [] emitted = "Removed entity '{}' from context '{}'" ->
            <<"Remove entity '{}' and all references">>
       [] emitted = "Removed field '{}' from entity '{}'" ->
            <<"Remove field '{}' from entity '{}'">>
       [] emitted = "Field '{}' on '{}' type changed: {} -> {}" ->
            <<"Update field type for '{}' on '{}'">>
       [] emitted = "Context '{}' moved: {} -> {}" -> <<"Move module from {} to {}">>
       [] OTHER -> <<>>

PlannedActions(change, conventions) ==
  map(plan_change(change, conventions).actions, LAMBDA a : a.description.fmt)

\* C6: every change emitted by diff_models receives the actions of the row of
\* the artifact kind the differ emitted it for, and of no other row.
C6_ClassifiedAsEmitted ==
  \A c \in Range(Changes) :
    PlannedActions(c, model.conventions) = ExpectedActions(c, model.conventions)

Priorities == <<"Critical", "High", "Medium", "Low">>

\* the position of a priority in Critical < High < Medium < Low
Rank(priority) == CHOOSE i \in DOMAIN Priorities : Priorities[i] = priority

OfPriority(actions, priority) == filter(actions, LAMBDA a : a.priority = priority)

IsStableSortOf(sorted, generated) ==
  /\ \A i, j \in DOMAIN sorted :
       i < j => Rank(sorted[i].priority) <= Rank(sorted[j].priority)
  /\ \A priority \in Range(Priorities) :
       OfPriority(sorted, priority) = OfPriority(generated, priority)

\* C7: the code_actions of a plan are in priority order (Critical < High <
\* Medium < Low), and the actions of each priority are exactly the generated
\* actions of that priority, in generation order: a stable sort that adds,
\* loses and duplicates nothing.
C7_CodeActionsStablySorted ==
  IsStableSortOf(plan_refactoring(Changes, model.conventions).code_actions,
                 generated_actions(Changes, model.conventions))

\* a plan just returned whose sort moved an action and kept two actions of
\* one priority
C7_Witness ==
  /\ response.tool = "draft_refactoring_plan"
  /\ response.result = text_result(plan_refactoring(Changes, model.conventions))
  /\ LET sorted == response.result.text.code_actions
     IN /\ sorted # generated_actions(Changes, model.conventions)
        /\ \E i, j \in DOMAIN sorted : i < j /\ sorted[i].priority = sorted[j].priority

\* C8: a compare_model or draft_refactoring_plan call, whatever it returns,
\* leaves the in-memory model and the snapshot of every workspace as they were.
C8_ReadToolsChangeNothing ==
  [][(CompareModel \/ DraftRefactoringPlan) => (model' = model /\ store' = store)]_vars

\* a read tool has answered with changes or a plan, over a store that holds a
\* snapshot differing from the in-memory model
C8_Witness ==
  /\ response.tool \in ReadTools
  /\ response.result # NoChanges
  /\ ~response.result.is_error
  /\ is_some(store_load(store, workspace_path))
  /\ model # Persisted

\* the Added changes of the contexts and of the rules of m, and nothing else
AddedContextsAndRules(m) ==
  map(m.bounded_contexts, LAMBDA bc :
        [kind |-> "Added", path |-> Lit("bounded_contexts.") \o bc.name])
  \o map(m.rules, LAMBDA r : [kind |-> "Added", path |-> Lit("rules.") \o r.id])

KindAndPath(changes) == map(changes, LAMBDA c : [kind |-> c.kind, path |-> c.path])

\* C9: with no snapshot persisted for the workspace, load_changes diffs the
\* in-memory model against the empty model: one Added change per bounded
\* context and one per rule, in this order and nothing else, and the read
\* tools return no_changes exactly when the model has no context and no rule.
\* The diff against the empty model is that for every snapshot of the state.
C9_AbsentSnapshotIsEmptyModel ==
  /\ \A M \in Snapshots :
       KindAndPath(diff_models(empty(workspace_path), M)) = AddedContextsAndRules(M)
  /\ store_load(store, workspace_path) = None =>
       LET loaded == load_changes(store, workspace_path, model, TRUE)
           nothing == model.bounded_contexts = <<>> /\ model.rules = <<>>
       IN /\ loaded.ok
          /\ KindAndPath(loaded.value) = AddedContextsAndRules(model)
          /\ (compare_model(store, workspace_path, model, TRUE) = NoChanges) <=> nothing
          /\ (draft_refactoring_plan(store, workspace_path, model, TRUE) = NoChanges)
               <=> nothing

\* compare_model has answered for a model with a context that has children,
\* no snapshot of the workspace exists, and a snapshot of another workspace
\* holds rules
C9_Witness ==
  /\ store_load(store, workspace_path) = None
  /\ response.tool = "compare_model"
  /\ response.result = compare_model(store, workspace_path, model, TRUE)
  /\ \E bc \in Range(model.bounded_contexts) :
       bc.entities # <<>> \/ bc.dependencies # <<>>
  /\ \E M \in Snapshots : M.rules # <<>>

\* the changes the classification table has no row for
UnmatchedFormats ==
  {"New value object '{}' in context '{}'", "Removed value object '{}' from context '{}'",
   "New repository '{}' in context '{}'", "Removed repository '{}' from context '{}'",
   "Removed bounded context: {}", "Removed service '{}' from context '{}'",
   "Removed event '{}' from context '{}'", "Removed dependency: {} -> {}",
   "'{}' aggregate root: {} -> {}", "Service '{}' kind changed: {} -> {}",
   "New method '{}' on service '{}'", "Removed method '{}' from service '{}'",
   "New dependency on service '{}': {}", "Removed dependency on service '{}': {}",
   "New rule: {} - {}", "Removed rule: {}", "Modified rule: {}"}

\* C10: plan_refactoring returns a plan for every change sequence; a change
\* the table has no row for contributes no code action and no migration note,
\* and the plan's model_changes are the changes it was given.
C10_UnmatchedChangesContributeNothing ==
  /\ plan_refactoring(Changes, model.conventions).model_changes = Changes
  /\ \A c \in Range(Changes) :
       c.description.fmt \in UnmatchedFormats =>
         plan_change(c, model.conventions) = [actions |-> <<>>, notes |-> <<>>]

\* the stated rule: an underscore before an uppercase character at position
\* i > 0 when the preceding or the following character is lowercase
UnderscoreBefore(chars, i) ==
  /\ is_uppercase(chars[i])
  /\ i > 1
  /\ \/ is_lowercase(chars[i - 1])
     \/ i < Len(chars) /\ is_lowercase(chars[i + 1])

\* the stated rule applied to every position; a character is lower-cased by
\* ASCII case folding
SnakeRule(chars) ==
  concat([i \in 1..Len(chars) |->
            IF UnderscoreBefore(chars, i)
              THEN <<"_", to_ascii_lowercase(chars[i])>>
              ELSE <<to_ascii_lowercase(chars[i])>>])

IsAscii(chars) ==
  \A i \in 1..Len(chars) : \A j \in 1..Len(UnicodeUpper) :
    chars[i] # UnicodeUpper[j] /\ chars[i] # UnicodeLower[j]

\* C19: to_snake returns what the stated rule gives on every input; the five
\* inputs of the tests give user_service, user_id, html_parser,
\* get_http_response and already_snake; an input with no uppercase character
\* comes back unchanged; on ASCII input to_snake is idempotent.
C19_ToSnakeFollowsRule ==
  snake_out # None =>
    LET out == snake_out[1]
    IN /\ out = SnakeRule(snake_in)
       /\ (snake_in = Lit("UserService") => out = Lit("user_service"))
       /\ (snake_in = Lit("UserID") => out = Lit("user_id"))
       /\ (snake_in = Lit("HTMLParser") => out = Lit("html_parser"))
       /\ (snake_in = Lit("getHTTPResponse") => out = Lit("get_http_response"))
       /\ (snake_in = Lit("already_snake") => out = snake_in)
       /\ ((\A i \in 1..Len(snake_in) : ~is_uppercase(snake_in[i])) => out = snake_in)
       /\ (IsAscii(snake_in) => to_snake(out) = out)

\* to_snake has returned for an acronym followed by a word: the underscore
\* before the last capital of the acronym comes from the following character
C19_Witness ==
  /\ snake_in = Lit("getHTTPResponse")
  /\ snake_out = Some(Lit("get_http_response"))

\* what a map keyed by normalized workspace path returns for path, given the
\* history of the successful saves
LatestSaved(path) ==
  IF canonicalize_path(path) \in DOMAIN last_saved
    THEN Some(last_saved[canonicalize_path(path)])
    ELSE None

\* C20: the store is a map keyed by normalized workspace path: load of a path
\* gives the model of the latest successful save under its key, absent when
\* there was none (so a save under another key changes nothing for it), and
\* list has exactly one entry per key saved so far.
C20_StoreIsMapByNormalizedPath ==
  /\ \A path \in StorePaths \cup {Lit("/never")} :
       store_load(store, path) = LatestSaved(path)
  /\ {entry.workspace_path : entry \in store_list(store)} = DOMAIN last_saved
  /\ Cardinality(store_list(store)) = Cardinality(DOMAIN last_saved)
  /\ response.tool = "load" => response.result = Ok(LatestSaved(response.path))
  /\ response.tool = "list" =>
       {entry.workspace_path : entry \in response.result.value} = DOMAIN last_saved

\* after MaxSaves saves two keys hold different models, and a load of /ws has
\* returned the model saved last under its key
C20_Witness ==
  /\ updates = MaxSaves
  /\ DOMAIN last_saved = {Lit("/ws"), Lit("/other")}
  /\ last_saved[Lit("/ws")] # last_saved[Lit("/other")]
  /\ response = [tool |-> "load", path |-> Lit("/ws"),
                 result |-> Ok(Some(last_saved[Lit("/ws")]))]

\* the (old, new) arguments diff_models may be given in this state: the
\* snapshot against the in-memory model, and the reverse
DiffPairs == {<<Persisted, model>>, <<model, Persisted>>}

\* new is old with one entity, of a name the context did not have, pushed to
\* the entities of its i-th context
AddsOneEntity(old, new, i) ==
  LET entities == new.bounded_contexts[i].entities
  IN /\ entities # <<>>
     /\ old = [new EXCEPT !.bounded_contexts[i].entities =
                            SubSeq(entities, 1, Len(entities) - 1)]
     /\ ~any(old.bounded_contexts[i].entities,
             LAMBDA e : same_name(e, entities[Len(entities)]))

\* what the claim gives for entity E added to context C
OneEntityAdded(old, new, C, E) ==
  LET changes == diff_models(old, new)
      plan == plan_refactoring(changes, new.conventions)
      file_path == resolve_path(new.conventions.file_structure.pattern,
                                C.name, Lit("domain"), E.name)
  IN /\ KindAndPath(changes) =
          <<[kind |-> "Added", path |-> C.name \o Lit(".entities.") \o E.name]>>
     /\ map(plan.code_actions,
            LAMBDA a : [action |-> a.action, file_path |-> a.file_path,
                        priority |-> a.priority])
          = <<[action |-> "CreateFile", file_path |-> file_path, priority |-> "High"],
              [action |-> "AddTest", file_path |-> file_path, priority |-> "Medium"]>>
     /\ map(plan.migration_notes, LAMBDA note : note.fmt)
          = <<"New entity '{}' - may need database migration">>
     /\ (/\ new.conventions.file_structure.pattern = Lit("src/{context}/{layer}/{type}.rs")
         /\ C.name = Lit("Identity")
         /\ E.name = Lit("Role"))
          => file_path = Lit("src/identity/domain/role.rs")

\* C11: when new is old plus one entity E in a context C of old, diff_models
\* yields the single change Added C.entities.E, and its plan is one High
\* CreateFile and one Medium AddTest at resolve(pattern, C, "domain", E), with
\* the new-entity migration note and no other note.
C11_OneAddedEntityOneChange ==
  \A pair \in DiffPairs :
    \A i \in DOMAIN pair[2].bounded_contexts :
      AddsOneEntity(pair[1], pair[2], i) =>
        LET C == pair[2].bounded_contexts[i]
        IN OneEntityAdded(pair[1], pair[2], C, C.entities[Len(C.entities)])

\* a code action without its description
ActionAt(a) == [action |-> a.action, file_path |-> a.file_path, priority |-> a.priority]

\* what the claim gives for entity e of a context of old whose pair in new,
\* named ctx, has no entity of that name
RemovedEntityPlanned(old, new, ctx, e) ==
  LET changes == diff_models(old, new)
      removed == filter(changes, LAMBDA c :
                   c.kind = "Removed" /\ c.path = ctx \o Lit(".entities.") \o e.name)
      plan == plan_refactoring(changes, new.conventions)
      delete == [action |-> "DeleteFile",
                 file_path |-> resolve_path(new.conventions.file_structure.pattern,
                                            ctx, Lit("domain"), e.name),
                 priority |-> "Critical"]
  IN /\ Len(removed) = 1
     /\ map(plan_change(removed[1], new.conventions).actions, ActionAt) = <<delete>>
     /\ map(plan_change(removed[1], new.conventions).notes, LAMBDA note : note.fmt)
          = <<"Removed entity '{}' - needs DROP TABLE migration">>
     /\ \E i \in DOMAIN plan.code_actions :
          /\ ActionAt(plan.code_actions[i]) = delete
          /\ \A j \in DOMAIN plan.code_actions :
               plan.code_actions[j].priority # "Critical" => i < j

\* C12: every entity of a context of old that has a context of the same name
\* (up to case) in new without an entity of that name gets exactly one Removed
\* change at <ctx>.entities.<name>; its plan is one Critical DeleteFile at the
\* entity's domain-layer path and the DROP TABLE note, and the action stands
\* before every High, Medium and Low action.
C12_RemovedEntityDeleted ==
  \A pair \in DiffPairs :
    \A matched \in MatchedContexts(pair[1], pair[2]) :
      \A e \in Range(matched[1].entities) :
        ~any(matched[2].entities, LAMBDA n : same_name(n, e)) =>
          RemovedEntityPlanned(pair[1], pair[2], matched[2].name, e)

\* the pairs of entities of two paired contexts the differ may pair
MatchedEntities(a, b) ==
  {<<old_e, new_e>> \in Range(a.entities) \X Range(b.entities) : same_name(old_e, new_e)}

\* the fields of fields that have a field of their name, up to case, in others
Named(fields, others) == filter(fields, LAMBDA f : any(others, LAMBDA o : same_name(o, f)))

Unnamed(fields, others) == filter(fields, LAMBDA f : ~any(others, LAMBDA o : same_name(o, f)))

\* the fields of new_e whose declared type changed: old_e has fields of that
\* name, and none of them has the type
Retyped(old_e, new_e) ==
  filter(Named(new_e.fields, old_e.fields), LAMBDA f :
    ~any(old_e.fields, LAMBDA o : same_name(o, f) /\ o.field_type = f.field_type))

FieldChangeRows ==
  [Modified |-> [priority |-> "Critical",
                 notes |-> {"Field type change on '{}.{}' - needs data migration"}],
   Added |-> [priority |-> "High",
              notes |-> {"New field '{}' on '{}' - needs ALTER TABLE migration"}],
   Removed |-> [priority |-> "High",
                notes |-> {"Removed field '{}' from '{}' - needs ALTER TABLE migration"}]]

\* the changes of kind kind at the path of field f of entity new_e of ctx
FieldChanges(changes, kind, ctx, new_e, f) ==
  filter(changes, LAMBDA c :
    /\ c.kind = kind
    /\ c.path = ctx \o Lit(".") \o new_e.name \o Lit(".fields.") \o f.name)

\* the changes of diff_entity that are about a field
IsFieldChange(c) ==
  c.description.fmt \in {"New field '{}: {}' on entity '{}'",
                         "Removed field '{}' from entity '{}'",
                         "Field '{}' on '{}' type changed: {} -> {}"}

FieldChangesMapped(ctx, old_e, new_e, conventions) ==
  LET changes == diff_entity(ctx, old_e, new_e)
      file_path == resolve_path(conventions.file_structure.pattern, ctx,
                                Lit("domain"), new_e.name)
  IN /\ \A f \in Range(Retyped(old_e, new_e)) :
          Len(FieldChanges(changes, "Modified", ctx, new_e, f)) = 1
     /\ \A f \in Range(Unnamed(new_e.fields, old_e.fields)) :
          Len(FieldChanges(changes, "Added", ctx, new_e, f)) = 1
     /\ \A f \in Range(Unnamed(old_e.fields, new_e.fields)) :
          Len(FieldChanges(changes, "Removed", ctx, new_e, f)) = 1
     /\ \A c \in Range(changes) :
          IsFieldChange(c) =>
            LET planned == plan_change(c, conventions)
            IN /\ map(planned.actions, ActionAt)
                    = <<[action |-> "ModifyFile", file_path |-> file_path,
                         priority |-> FieldChangeRows[c.kind].priority]>>
               /\ Len(planned.notes) = 1
               /\ planned.notes[1].fmt \in FieldChangeRows[c.kind].notes

Partner(old, b) == find(old.bounded_contexts, LAMBDA bc : same_name(bc, b))

\* the module path of b is not empty and not that of a
ModuleMoved(a, b) == b.module_path # <<>> /\ b.module_path # a.module_path

\* one Moved change per context of new that has a partner in old and whose
\* non-empty module path differs from the partner's, in the order of new
ExpectedMoves(old, new) ==
  map(filter(new.bounded_contexts, LAMBDA b :
               is_some(Partner(old, b)) /\ ModuleMoved(Partner(old, b)[1], b)),
      LAMBDA b : [kind |-> "Moved", path |-> b.name \o Lit(".module_path"),
                  before |-> Some(JsonString(Partner(old, b)[1].module_path)),
                  after |-> Some(JsonString(b.module_path))])

\* the changes of diff_models(old, new) that are of kind Moved or at the
\* module path of a context of new
ModulePathChanges(old, new) ==
  filter(diff_models(old, new), LAMBDA c :
    \/ c.kind = "Moved"
    \/ \E b \in Range(new.bounded_contexts) : c.path = b.name \o Lit(".module_path"))

\* C14: diff_models has one Moved change at <ctx>.module_path, from the old
\* to the new module path, for each context of new paired with a context of
\* old whose module path is non-empty and differs from the old one, and no
\* other change of kind Moved or at a module path (so none when the module
\* path became empty); each Moved change is planned as exactly one Critical
\* MoveFile whose file_path is the old module path.
C14_ModuleMoveDetected ==
  \A pair \in DiffPairs :
    LET changes == ModulePathChanges(pair[1], pair[2])
    IN /\ map(changes, LAMBDA c : [kind |-> c.kind, path |-> c.path,
                                   before |-> c.before, after |-> c.after])
            = ExpectedMoves(pair[1], pair[2])
       /\ \A c \in Range(changes) :
            map(plan_change(c, pair[2].conventions).actions, ActionAt)
              = <<[action |-> "MoveFile", file_path |-> c.before[1].v,
                   priority |-> "Critical"]>>

\* a plan has been returned for a moved context, and the reverse diff is of a
\* context whose module path became empty
C14_Witness ==
  /\ response.tool = "draft_refactoring_plan"
  /\ response.result = text_result(plan_refactoring(Changes, model.conventions))
  /\ ExpectedMoves(Persisted, model) # <<>>
  /\ \E b \in Range(Persisted.bounded_contexts) :
       /\ is_some(Partner(model, b))
       /\ b.module_path = <<>>
       /\ Partner(model, b)[1].module_path # <<>>

\* the contexts of new without a context of their name, up to case, in old
UnmatchedContexts(old, new) ==
  filter(new.bounded_contexts, LAMBDA b : ~any(old.bounded_contexts, LAMBDA a : same_name(a, b)))

\* the changes of diff_models(old, new) about a context of new that old lacks:
\* at bounded_contexts.<name>, or below <name>
UnmatchedContextChanges(old, new) ==
  filter(diff_models(old, new), LAMBDA c :
    \E b \in Range(UnmatchedContexts(old, new)) :
      \/ c.path = Lit("bounded_contexts.") \o b.name
      \/ MatchesAt(c.path, b.name \o Lit("."), 1))

TableLayer ==
  [c \in {"New service '{}' in context '{}'"} |-> Lit("application")]
  @@ [c \in {"New entity '{}' in context '{}'", "New field '{}: {}' on entity '{}'",
             "New event '{}' in context '{}'", "New invariant on '{}': {}"}
        |-> Lit("domain")]

\* the name of the context of new a change below a context is about
ContextOf(c, new) ==
  CHOOSE ctx \in {b.name : b \in Range(new.bounded_contexts)} :
    MatchesAt(c.path, ctx \o Lit("."), 1)

\* the name of the artifact whose file a change is planned on: the service,
\* entity or event added, or the entity of the field or invariant added
ArtifactOf(c) ==
  IF c.description.fmt = "New field '{}: {}' on entity '{}'"
    THEN c.description.args[3]
    ELSE c.description.args[1]

\* the path both patterns of the inputs, the empty one and
\* src/{context}/{layer}/{type}.rs, resolve to
LayeredPath(ctx, layer, artifact) ==
  Lit("src/") \o to_snake(ctx) \o Lit("/") \o layer \o Lit("/")
    \o to_snake(artifact) \o Lit(".rs")

NotesOf(change, conventions) ==
  plan_refactoring(<<change>>, conventions).migration_notes

\* C17: in the plan for a change sequence, model_changes is that sequence,
\* every change produces at most one note, and migration_notes is the notes
\* of the note-producing changes in the order of the changes in the input,
\* whatever the priority sort does to code_actions.
C17_ChangesEchoedNotesInInputOrder ==
  \A pair \in DiffPairs :
    LET changes == diff_models(pair[1], pair[2])
        conventions == pair[2].conventions
        plan == plan_refactoring(changes, conventions)
    IN /\ plan.model_changes = changes
       /\ \A i \in DOMAIN changes : Len(NotesOf(changes[i], conventions)) <= 1
       /\ plan.migration_notes
            = concat([i \in DOMAIN changes |-> NotesOf(changes[i], conventions)])

\* a plan has been returned whose actions the sort reordered, for changes
\* the first of which produces no note, with at least two different notes
C17_Witness ==
  /\ response.tool = "draft_refactoring_plan"
  /\ response.result = text_result(plan_refactoring(Changes, model.conventions))
  /\ LET plan == plan_refactoring(Changes, model.conventions)
     IN /\ plan.code_actions # generated_actions(Changes, model.conventions)
        /\ Len(plan.migration_notes) >= 2
        /\ plan.migration_notes[1] # plan.migration_notes[Len(plan.migration_notes)]
        /\ NotesOf(Changes[1], model.conventions) = <<>>

\* a string with its ASCII letters in upper case
AsciiUpper(s) ==
  [i \in DOMAIN s |->
     IF \E k \in 1..Len(AlphaLower) : AlphaLower[k] = s[i]
       THEN AlphaUpper[CHOOSE k \in 1..Len(AlphaLower) : AlphaLower[k] = s[i]]
       ELSE s[i]]

\* a string with its ASCII letters in lower case
AsciiLower(s) == [i \in DOMAIN s |-> to_ascii_lowercase(s[i])]

RenamedUpper(items) == [i \in DOMAIN items |-> [items[i] EXCEPT !.name = AsciiUpper(@)]]

RenamedLower(items) == [i \in DOMAIN items |-> [items[i] EXCEPT !.name = AsciiLower(@)]]

\* m with the names of its contexts, entities, services, events, value
\* objects, repositories, fields, service methods and dependencies in upper
\* case, and nothing else changed
UpperCased(m) ==
  [m EXCEPT !.bounded_contexts = [i \in DOMAIN @ |->
    [@[i] EXCEPT
       !.name = AsciiUpper(@),
       !.entities = [j \in DOMAIN @ |->
                       [@[j] EXCEPT !.name = AsciiUpper(@), !.fields = RenamedUpper(@)]],
       !.services = [j \in DOMAIN @ |->
                       [@[j] EXCEPT !.name = AsciiUpper(@), !.methods = RenamedUpper(@),
                                    !.dependencies = [k \in DOMAIN @ |-> AsciiUpper(@[k])]]],
       !.events = RenamedUpper(@),
       !.value_objects = RenamedUpper(@),
       !.repositories = RenamedUpper(@),
       !.dependencies = [k \in DOMAIN @ |-> AsciiUpper(@[k])]]]]

\* the same in lower case
LowerCased(m) ==
  [m EXCEPT !.bounded_contexts = [i \in DOMAIN @ |->
    [@[i] EXCEPT
       !.name = AsciiLower(@),
       !.entities = [j \in DOMAIN @ |->
                       [@[j] EXCEPT !.name = AsciiLower(@), !.fields = RenamedLower(@)]],
       !.services = [j \in DOMAIN @ |->
                       [@[j] EXCEPT !.name = AsciiLower(@), !.methods = RenamedLower(@),
                                    !.dependencies = [k \in DOMAIN @ |-> AsciiLower(@[k])]]],
       !.events = RenamedLower(@),
       !.value_objects = RenamedLower(@),
       !.repositories = RenamedLower(@),
       !.dependencies = [k \in DOMAIN @ |-> AsciiLower(@[k])]]]]

\* the pairs of models that differ only in the letter case of those names:
\* the in-memory model and the persisted snapshot, each against itself in
\* upper and in lower case, in both directions
CasePairs ==
  UNION {{<<m, UpperCased(m)>>, <<UpperCased(m), m>>,
          <<m, LowerCased(m)>>, <<LowerCased(m), m>>} : m \in {model, Persisted}}

\* C18: between two models that differ only in the ASCII letter case of the
\* names of contexts, entities, services, events, value objects,
\* repositories, fields, service methods and dependencies, diff_models
\* reports no Added and no Removed change.
C18_CaseInsensitiveNames ==
  \A pair \in CasePairs :
    \A c \in Range(diff_models(pair[1], pair[2])) : c.kind \notin {"Added", "Removed"}

\* the names, in argument order, of the argument items that carry the keys
\* the tool schema requires of them
ItemNames(items, required) ==
  map(filter(items, LAMBDA it : required \subseteq DOMAIN it), LAMBDA it : it.name)

\* after is before merged with the items named names: every item of before
\* is still there under its name at its position, and each name that before
\* does not hold is appended exactly once
MergedByName(before, names, after) ==
  LET held == {before[i].name : i \in DOMAIN before}
      fresh == Range(names) \ held
  IN /\ Len(after) = Len(before) + Cardinality(fresh)
     /\ \A i \in DOMAIN before : after[i].name = before[i].name
     /\ \A n \in fresh :
          Cardinality({i \in DOMAIN after : i > Len(before) /\ after[i].name = n}) = 1

\* the item of after named as the argument item carries the attributes the
\* argument item supplies, when the arguments name it once
UpdatedInPlace(before, items, after, key, attribute) ==
  \A k \in DOMAIN items :
    ("name" \in DOMAIN items[k] /\ key \in DOMAIN items[k]
       /\ Cardinality({j \in DOMAIN items : "name" \in DOMAIN items[j]
                                              /\ items[j].name = items[k].name}) = 1) =>
      \A i \in DOMAIN before :
        (before[i].name = items[k].name
           /\ \A h \in 1..(i - 1) : before[h].name # items[k].name) =>
          after[i][attribute] = items[k][key]

\* the same for invariants, which are plain strings
MergedStrings(before, strings, after) ==
  LET fresh == Range(strings) \ Range(before)
  IN /\ Len(after) = Len(before) + Cardinality(fresh)
     /\ SubSeq(after, 1, Len(before)) = before
     /\ \A s \in fresh :
          Cardinality({i \in DOMAIN after : after[i] = s}) = 1

\* the item the call names, by the position of its context and its own
\* position in the collection, before and after the call
Existing(m, args, collection) ==
  LET at == find_context(m, arg_str(args, "context"))
  IN IF at = 0 THEN 0
     ELSE position(m.bounded_contexts[at][collection],
                   LAMBDA e : eq_ignore_ascii_case(e.name, arg_str(args, "name")))

\* C21: update_entity on an existing entity, and update_service on an
\* existing service for its methods, merge: the fields, methods and
\* invariants held before the call are still held after it, an argument item
\* named as an existing item updates that item in place, and an item with a
\* new name is appended exactly once.
C21_UpdateMerges ==
  /\ \A args \in UpdateEntityArgs :
       Existing(model, args, "entities") # 0 =>
         LET at == find_context(model, arg_str(args, "context"))
             e_at == Existing(model, args, "entities")
             before == model.bounded_contexts[at].entities[e_at]
             after == update_entity(model, args).model.bounded_contexts[at].entities[e_at]
             fields == get_or(args, "fields", <<>>)
             methods == get_or(args, "methods", <<>>)
         IN /\ MergedByName(before.fields, ItemNames(fields, {"name", "type"}), after.fields)
            /\ UpdatedInPlace(before.fields, fields, after.fields, "type", "field_type")
            /\ MergedByName(before.methods, ItemNames(methods, {"name"}), after.methods)
            /\ UpdatedInPlace(before.methods, methods, after.methods,
                              "return_type", "return_type")
            /\ MergedStrings(before.invariants, get_or(args, "invariants", <<>>),
                             after.invariants)
  /\ \A args \in UpdateServiceArgs :
       Existing(model, args, "services") # 0 =>
         LET at == find_context(model, arg_str(args, "context"))
             s_at == Existing(model, args, "services")
             before == model.bounded_contexts[at].services[s_at]
             after == update_service(model, args).model.bounded_contexts[at].services[s_at]
             methods == get_or(args, "methods", <<>>)
         IN /\ MergedByName(before.methods, ItemNames(methods, {"name"}), after.methods)
            /\ UpdatedInPlace(before.methods, methods, after.methods,
                              "return_type", "return_type")

\* update_entity has answered for an existing entity that now holds a field
\* it had before, retyped, beside a field appended by the call
C21_Witness ==
  /\ response.tool = "update_entity"
  /\ response.result.text.fmt = "Updated entity '{}' in '{}'"
  /\ \E b \in Range(model.bounded_contexts) : \E e \in Range(b.entities) :
       /\ Len(e.fields) >= 2
       /\ e.fields[1] = Field(Lit("id"), Lit("Uuid"), TRUE, Lit(""))
       /\ \E i \in DOMAIN e.fields : e.fields[i].name = Lit("email")

\* the write-tool calls of the model: each tool with its arguments, the
\* tools without arguments, and a name that no tool has
WriteToolCalls ==
  ({"update_bounded_context"} \X UpdateBoundedContextArgs)
  \cup ({"update_entity"} \X UpdateEntityArgs)
  \cup ({"update_service"} \X UpdateServiceArgs)
  \cup ({"update_event"} \X UpdateEventArgs)
  \cup ({"remove_entity"} \X RemoveEntityArgs)
  \cup ({"compare_model", "draft_refactoring_plan", "save_model", "no_such_tool"}
          \X {[context |-> Lit("Identity")]})

\* C22: a write-tool call that returns an error result -- a context or an
\* entity that does not exist, an empty context name, an unknown tool name,
\* a failing store -- leaves the in-memory model and the store, hence the
\* persisted snapshot, as they were.
C22_ErrorResultChangesNothing ==
  \A call \in WriteToolCalls : \A io_ok \in BOOLEAN :
    \A outcome \in {call_write_tool(model, workspace_path, store,
                                      call[1], call[2], io_ok)} :
      outcome.result.is_error =>
        /\ outcome.model = model
        /\ outcome.store = store
        /\ store_load(outcome.store, workspace_path) = store_load(store, workspace_path)

\* remove_entity has answered with an error for a context that holds
\* entities, none of them of the name asked for
C22_Witness ==
  /\ response.tool = "remove_entity"
  /\ response.result = error_result(Format("Entity '{}' not found in '{}'",
                                           <<Lit("NotHere"), Lit("Identity")>>))
  /\ \E b \in Range(model.bounded_contexts) :
       eq_ignore_ascii_case(b.name, Lit("Identity")) /\ b.entities # <<>>

\* m with the ids of its rules in lower case, and nothing else changed
RuleIdsLowerCased(m) ==
  [m EXCEPT !.rules = [i \in DOMAIN @ |-> [@[i] EXCEPT !.id = AsciiLower(@)]]]

\* the rules of m whose id no other rule of m has, ignoring case
SingleRules(m) ==
  {m.rules[i] : i \in {i \in DOMAIN m.rules :
     \A j \in DOMAIN m.rules : eq_ignore_ascii_case(m.rules[j].id, m.rules[i].id) => j = i}}

\* C23: two rules whose ids differ only in letter case are the same rule to
\* the differ: between a model and the model with its rule ids in lower
\* case, no rule is reported Added or Removed.
C23_RuleIdsCaseInsensitive ==
  \A m \in {model, Persisted} :
    \A pair \in {<<m, RuleIdsLowerCased(m)>>, <<RuleIdsLowerCased(m), m>>} :
      \A r \in SingleRules(m) :
        \A c \in Range(diff_models(pair[1], pair[2])) :
          c.path \in {Lit("rules.") \o r.id, Lit("rules.") \o AsciiLower(r.id)}
            => c.kind \notin {"Added", "Removed"}

\* the descriptions of the changes diff_entity reports below a matched
\* entity: its fields, its invariants and its aggregate_root flag
EntitySubChangeFormats ==
  {"New field '{}: {}' on entity '{}'", "Removed field '{}' from entity '{}'",
   "Field '{}' on '{}' type changed: {} -> {}", "New invariant on '{}': {}",
   "'{}' aggregate root: {} -> {}"}

\* C24: a change below an entity is addressed through the 'entities'
\* container key, <context>.entities.<entity>.<...>, as the Added and
\* Removed changes of the entity itself are: a field email added to User of
\* Identity is at Identity.entities.User.fields.email.
C24_EntitySubChangesUnderEntitiesKey ==
  \A pair \in DiffPairs :
    \A c \in Range(diff_models(pair[1], pair[2])) :
      c.description.fmt \in EntitySubChangeFormats =>
        \E b \in Range(pair[2].bounded_contexts) : \E e \in Range(b.entities) :
          MatchesAt(c.path, b.name \o Lit(".entities.") \o e.name \o Lit("."), 1)

MatchedServices(a, b) ==
  {<<old_s, new_s>> \in Range(a.services) \X Range(b.services) : same_name(old_s, new_s)}

\* the kind and the path of each change, and for an invariant the string
KindPathAfter(changes) ==
  map(changes, LAMBDA c : [kind |-> c.kind, path |-> c.path, after |-> c.after])

\* the methods of methods that others has no method named alike, up to case
MethodsNotIn(methods, others) ==
  filter(methods, LAMBDA m : \A i \in DOMAIN others :
                               ~eq_ignore_ascii_case(others[i].name, m.name))

\* what the differ reports about the invariants of two paired entities: one
\* Added change per invariant of new that old does not hold, nothing else
InvariantsAddedOnly(ctx, old_e, new_e) ==
  LET at == ctx \o Lit(".") \o new_e.name \o Lit(".invariants")
      added == filter(new_e.invariants, LAMBDA inv : inv \notin Range(old_e.invariants))
  IN KindPathAfter(filter(diff_entity(ctx, old_e, new_e), LAMBDA c : c.path = at))
       = map(added, LAMBDA inv : [kind |-> "Added", path |-> at,
                                  after |-> Some(JsonString(inv))])

\* what the differ reports about the methods of two paired services: one
\* Added change per method only new has, one Removed change per method only
\* old has, and nothing for a method both have
MethodsWholeOnly(ctx, old_s, new_s) ==
  LET at == ctx \o Lit(".services.") \o new_s.name \o Lit(".methods.")
      about == filter(diff_service(ctx, old_s, new_s), LAMBDA c : MatchesAt(c.path, at, 1))
  IN map(about, LAMBDA c : [kind |-> c.kind, path |-> c.path])
       = map(MethodsNotIn(new_s.methods, old_s.methods),
             LAMBDA m : [kind |-> "Added", path |-> at \o m.name])
         \o map(MethodsNotIn(old_s.methods, new_s.methods),
                LAMBDA m : [kind |-> "Removed", path |-> at \o m.name])

\* C25: detection on a matched pair is asymmetric.  For two entities the
\* differ may pair, each invariant of new that is no invariant of old gives
\* one Added change and an invariant only old holds gives none; for two
\* services the differ may pair, a method both have gives no change whatever
\* its signature, a method only one of them has gives one Added or Removed.
C25_AsymmetricDetection ==
  \A pair \in DiffPairs :
    \A matched \in MatchedContexts(pair[1], pair[2]) :
      /\ \A entities \in MatchedEntities(matched[1], matched[2]) :
           InvariantsAddedOnly(matched[2].name, entities[1], entities[2])
      /\ \A services \in MatchedServices(matched[1], matched[2]) :
           MethodsWholeOnly(matched[2].name, services[1], services[2])

\* compare_model has answered for a snapshot and a model of which one holds,
\* on an entity both have, an invariant the other lacks, and which declare on
\* a service both have one method with different return types
C25_Witness ==
  /\ response.tool = "compare_model"
  /\ ~response.result.is_error
  /\ \E pair \in DiffPairs :
       \E matched \in MatchedContexts(pair[1], pair[2]) :
         \E entities \in MatchedEntities(matched[1], matched[2]) :
           Range(entities[1].invariants) \ Range(entities[2].invariants) # {}
  /\ \E matched \in MatchedContexts(Persisted, model) :
       \E services \in MatchedServices(matched[1], matched[2]) :
         \E o \in Range(services[1].methods), n \in Range(services[2].methods) :
           same_name(o, n) /\ o.return_type # n.return_type

\* no two items of the sequence have names that are equal ignoring ASCII case
NamesUnique(items) ==
  \A i, j \in DOMAIN items : eq_ignore_ascii_case(items[i].name, items[j].name) => i = j

\* no two contexts of m share a name, no context holds two entities of one name
ContextAndEntityNamesUnique(m) ==
  /\ NamesUnique(m.bounded_contexts)
  /\ \A b \in Range(m.bounded_contexts) : NamesUnique(b.entities)

ModelUpdateCalls ==
  {call \in WriteToolCalls :
     call[1] \in {"update_bounded_context", "update_entity", "update_service",
                  "update_event", "remove_entity"}}

\* C26: context names and the entity names of each context stay unique up to
\* letter case: whenever the in-memory model has that property, the model
\* after any call of update_bounded_context, update_entity, update_service,
\* update_event or remove_entity has it too.
C26_NamesStayUnique ==
  ContextAndEntityNamesUnique(model) =>
    \A call \in ModelUpdateCalls :
      ContextAndEntityNamesUnique(
        call_write_tool(model, workspace_path, store, call[1], call[2], TRUE).model)

\* update_entity has updated 'user' in 'identity', spelled in lower case, in
\* a model of unique names whose context Identity holds User beside another
\* entity
C26_Witness ==
  /\ response.tool = "update_entity"
  /\ response.result = text_result(Format("Updated entity '{}' in '{}'",
                                          <<Lit("user"), Lit("identity")>>))
  /\ ContextAndEntityNamesUnique(model)
  /\ \E b \in Range(model.bounded_contexts) :
       /\ b.name = Lit("Identity")
       /\ Len(b.entities) >= 2
       /\ \E e \in Range(b.entities) : e.name = Lit("User")

\* no entity and no event of m holds two fields of one name, ignoring case
FieldNamesUnique(m) ==
  \A b \in Range(m.bounded_contexts) :
    /\ \A e \in Range(b.entities) : NamesUnique(e.fields)
    /\ \A ev \in Range(b.events) : NamesUnique(ev.fields)

\* C27: field names are identity keys up to letter case: whenever no entity
\* and no event of the in-memory model holds two fields whose names are equal
\* ignoring ASCII case, the same is true of the model after any update_entity
\* or update_event call.
C27_FieldNamesStayUnique ==
  FieldNamesUnique(model) =>
    \A call \in ModelUpdateCalls :
      call[1] \in {"update_entity", "update_event"} =>
        FieldNamesUnique(
          call_write_tool(model, workspace_path, store, call[1], call[2], TRUE).model)

\* a parsed request with id 1
Parsed(method, params) == from_str(Request(1, method, params)).value

\* requests of every kind: each write-tool call of the model, the read
\* tools, the resource and prompt methods, and the requests of StdioLines
FrameRequests ==
  {Parsed("tools/call", [name |-> call[1], arguments |-> call[2]]) : call \in WriteToolCalls}
  \cup {Parsed("tools/call", [name |-> tool, arguments |-> [name |-> Lit("identity")]]) :
          tool \in {"get_bounded_context", "get_architectural_rules", "get_conventions"}}
  \cup {Parsed("resources/read", [uri |-> Lit("domcp://context/identity")]),
        Parsed("prompts/get", [name |-> "domcp_guidelines"]),
        Parsed("prompts/get", [name |-> "no_such_prompt"])}
  \cup {from_str(Request(1, method, <<>>)).value :
          method \in {"initialize", "tools/list", "resources/list", "prompts/list", "ping"}}
  \cup {from_str(line).value : line \in {l \in StdioLines : from_str(l).ok}}

\* the tool a request calls, "" when it calls none
ToolOf(req) ==
  IF req.method = "tools/call" /\ is_some(req.params) /\ "name" \in DOMAIN req.params[1]
    THEN req.params[1].name ELSE ""

ModelUpdateTools ==
  {"update_bounded_context", "update_entity", "update_service", "update_event",
   "remove_entity"}

\* C28: whatever request the server handles next, the store is changed only
\* by a save_model call that succeeds, after which the persisted snapshot of
\* the workspace is the in-memory model; the in-memory model is changed only
\* by update_bounded_context, update_entity, update_service, update_event and
\* remove_entity, which leave the store alone; every other request -- read
\* tools, resource reads, prompt requests -- changes neither.
C28_SnapshotChangesOnlyOnSave ==
  \A req \in FrameRequests : \A io_ok \in BOOLEAN :
    \A handled \in {handle_request(model, workspace_path, store, req, io_ok)} :
      /\ handled.store # store =>
           /\ ToolOf(req) = "save_model"
           /\ ~handled.response.result[1].is_error
      /\ (ToolOf(req) = "save_model" /\ ~handled.response.result[1].is_error) =>
           /\ store_load(handled.store, workspace_path) = Some(model)
           /\ handled.model = model
      /\ handled.model # model =>
           /\ ToolOf(req) \in ModelUpdateTools
           /\ handled.store = store
      /\ ToolOf(req) \notin ModelUpdateTools \cup {"save_model"} =>
           /\ handled.model = model
           /\ handled.store = store

\* save_model has succeeded after an update of the in-memory model: the
\* persisted snapshot of the workspace is the in-memory model
C28_Witness ==
  /\ response.tool = "save_model"
  /\ ~response.result.is_error
  /\ updates >= 1
  /\ store_load(store, workspace_path) = Some(model)

\* the changes the differ reports between m and m after update_service(args)
ChangesOfUpdateService(m, args) ==
  Range(diff_models(m, update_service(m, args).model))

\* C29: update_service without 'kind' keeps the kind of a service that
\* exists: were the in-memory model saved and update_service then called
\* with arguments that omit 'kind', compare_model would report no Modified
\* change of a service's kind.
C29_OmittedKindKept ==
  \A args \in UpdateServiceArgs :
    "kind" \notin DOMAIN args =>
      \A c \in ChangesOfUpdateService(model, args) :
        ~(c.kind = "Modified" /\ c.description.fmt = "Service '{}' kind changed: {} -> {}")

LineBlank(line) == "text" \in DOMAIN line /\ is_empty(trim(line.text))

LineParses(line) == ~LineBlank(line) /\ from_str(line).ok

\* the id the request of a line carries, None for a line that is no request
\* and for a notification
IdOf(line) == IF LineParses(line) THEN from_str(line).value.id ELSE None

\* the lines the server owes a response: those that do not parse, and the
\* requests that carry an id
Answerable(line) == ~LineBlank(line) /\ (~from_str(line).ok \/ is_some(IdOf(line)))

KnownMethods ==
  {"initialize", "notifications/initialized", "initialized", "ping", "tools/list",
   "tools/call", "resources/list", "resources/read", "prompts/list", "prompts/get"}

UnknownMethod(line) == LineParses(line) /\ from_str(line).value.method \notin KnownMethods

\* a tools/call request without params, or with params that name no tool
ToolsCallWithoutParams(line) ==
  /\ LineParses(line)
  /\ from_str(line).value.method = "tools/call"
  /\ ToolOf(from_str(line).value) = ""

\* the lines the loop has finished with
LinesDone == IF pc \in {"read", "done"} THEN cursor ELSE cursor - 1

\* the response written for line k of the input
ResponseTo(k) == stdout[Len(SelectSeq(SubSeq(stdin, 1, k), Answerable))]

ErrorCode(r, code) == r.result = None /\ r.error # None /\ r.error[1].code = code

\* what has been written when the loop is between two lines, about to handle
\* a line, or about to send
ResponsesInOrder ==
  /\ map(stdout, LAMBDA r : r.id)
       = map(SelectSeq(SubSeq(stdin, 1, LinesDone), Answerable), IdOf)
  /\ pc = "send" => Answerable(stdin[cursor]) /\ response.id = IdOf(stdin[cursor])
  /\ \A k \in 1..LinesDone :
       Answerable(stdin[k]) =>
         /\ ~LineParses(stdin[k]) => ErrorCode(ResponseTo(k), -32700) /\ ResponseTo(k).id = None
         /\ UnknownMethod(stdin[k]) => ErrorCode(ResponseTo(k), -32601)
         /\ ToolsCallWithoutParams(stdin[k]) => ErrorCode(ResponseTo(k), -32602)

\* the request of a line, given the id 1
WithId(line) == [from_str(line).value EXCEPT !.id = Some(JsonNumber(1))]

\* a step of the loop: a line is read only between two lines and it is the
\* next one; handling a line that is blank, does not parse, names an unknown
\* method or calls a tool without params changes neither model nor store;
\* handling a notification changes the model as the same request with an id
\* would, and nothing is sent for it
OneLineAtATime ==
  /\ stdin' = stdin
  /\ cursor' # cursor => pc = "read" /\ cursor' = cursor + 1
  /\ stdout' # stdout => pc = "send" /\ Len(stdout') = Len(stdout) + 1
  /\ (pc = "handle" /\ pc' # "handle") =>
       /\ (\/ ~LineParses(stdin[cursor])
           \/ UnknownMethod(stdin[cursor])
           \/ ToolsCallWithoutParams(stdin[cursor]))
            => model' = model /\ store' = store
       /\ (LineParses(stdin[cursor]) /\ ~is_some(IdOf(stdin[cursor]))) =>
            /\ pc' = "read"
            /\ \E handled \in {handle_request(model, workspace_path, store,
                                                WithId(stdin[cursor]), TRUE)} :
                 model' = handled.model

\* C30: the stdio server handles its input one line at a time, in order:
\* before the next line is read, the responses written are, in order, one per
\* request that carried an id, with that id, and one per line that did not
\* parse, without an id and with code -32700; a notification is answered by
\* nothing and changes the model as the request would; an unknown method is
\* answered with -32601 and tools/call without valid params with -32602,
\* and neither changes the model.
C30_LinesHandledInOrder == []ResponsesInOrder /\ [][OneLineAtATime]_vars

\* the input has ended after a line that did not parse, a notification that
\* changed the model and a request with an id: two responses were written,
\* the parse error first
C30_Witness ==
  /\ pc = "done"
  /\ Len(stdin) = 3
  /\ ~LineBlank(stdin[1]) /\ ~LineParses(stdin[1])
  /\ LineParses(stdin[2]) /\ ~is_some(IdOf(stdin[2]))
  /\ is_some(IdOf(stdin[3]))
  /\ model # StdioSeed
  /\ Len(stdout) = 2
  /\ ErrorCode(stdout[1], -32700)
  /\ stdout[2].id = IdOf(stdin[3])

====
